---- MODULE Spec2Model ----
(***************************************************************************)
(* Queue workers of the veidemann frontier: the delayed-move script, the   *)
(* reconciliation operations of database.go and the stores they act on.    *)
(*                                                                         *)
(* The queue store (Redis) holds sorted sets, lists and hashes; the        *)
(* durable store (RethinkDB) holds the tables uri_queue, executions and    *)
(* job_executions.  Every store call of the Go code is one atomic step of  *)
(* its store; an operation that makes several store calls is a sequence of *)
(* steps, with its local variables kept in a frame record.                 *)
(***************************************************************************)
EXTENDS Integers, Sequences, FiniteSets, TLC

(***************************************************************************)
(* Bounds of the model.                                                    *)
(***************************************************************************)
\* crawl host group keys are 1..NumChg (ordered as their member strings are)
NumChg == 2
\* the clock (milliseconds since epoch) runs over 0..MaxTime; a score may be
\* one millisecond later than the clock ever gets
MaxTime == 1

Chgs == 1..NumChg
Ceids == {1, 2, 3}
Scores == 0..(MaxTime + 1)

(***************************************************************************)
(* Redis key names, database.go lines 49-63.                               *)
(***************************************************************************)
redisRemoveUriQueue == "REMURI"
redisWaitQueue == "chg_wait{chg}"
redisReadyQueue == "chg_ready{chg}"
redisBusyQueue == "chg_busy{chg}"
redisTimeoutQueue == "chg_timeout{chg}"
redisCrawlExecutionRunningQueue == "ceid_running"
redisCrawlExecutionTimeoutQueue == "ceid_timeout"

\* keys holding a sorted set (member -> score) and keys holding a list
ZKeys == {redisWaitQueue, redisBusyQueue, redisCrawlExecutionRunningQueue}
LKeys == {redisReadyQueue, redisTimeoutQueue, redisCrawlExecutionTimeoutQueue,
          redisRemoveUriQueue}

VARIABLES
    clock,      \* time.Now() in milliseconds
    zsets,      \* Redis: sorted-set key -> [member -> score]
    lists,      \* Redis: list key -> sequence of members
    last,       \* the most recent moveChg call and what it returned
    eval,       \* Redis: the script run in progress, one redis.call at a time
    obs,        \* what another client of Redis saw when its command ran
    executions, \* RethinkDB: table executions, id -> document
    tce,        \* TimeoutCrawlExecutions: its locals, its cycle's record
    hashes,     \* Redis: the hashes JEID:<id>, id -> [field -> string]
    job_executions, \* RethinkDB: table job_executions, id -> document
    uje,        \* UpdateJobExecutions: its locals, its cycle's record
    uri_queue,  \* RethinkDB: table uri_queue, the ids of its rows
    rfu,        \* RemoveFromUriQueue: its locals, its cycle's record
    loops,      \* main: the worker goroutines, name -> where each one is
    ctxDone,    \* main: whether stop() has cancelled ctx
    wg,         \* main: wg.Wait(), and the error it returned
    retry,      \* execWithRetry: its locals, the calls it made, its result
    calls,      \* the latest two calls of moveChg: what each met and returned
    drain,      \* the ids put in the timeout queue and not yet updated
    poison,     \* the id whose durable update fails at every attempt (0: none)
    removal,    \* the stores as a removal cycle met them, and how it went on
    started     \* main: loop name -> the invocations it began after the cancel

storeVars == <<zsets, lists>>
atomicVars == <<eval, obs>>
tceVars == <<executions, tce>>
ujeVars == <<hashes, job_executions, uje>>
uriVars == <<uri_queue, rfu>>
schedVars == <<loops, ctxDone, wg, started>>
vars == <<clock, zsets, lists, last, eval, obs, executions, tce, hashes,
          job_executions, uje, uri_queue, rfu, loops, ctxDone, wg, retry, calls,
          drain, poison, removal, started>>

\* what the actions of each specification leave alone, beside the variables
\* they name
callFrame == <<atomicVars, tceVars, ujeVars, uriVars, schedVars, retry, drain,
               poison, removal>>
moveFrame == <<callFrame, calls>>
atomicFrame == <<tceVars, ujeVars, uriVars, schedVars, retry, calls, drain,
                 poison, removal>>
tceFrame == <<last, atomicVars, ujeVars, uriVars, schedVars, retry, calls,
              poison, removal>>
ujeFrame == <<clock, zsets, lists, last, atomicVars, tceVars, uriVars, schedVars,
              retry, calls, drain, poison, removal>>
uriFrame == <<clock, zsets, last, atomicVars, tceVars, ujeVars, schedVars, retry,
              calls, drain, poison>>
schedFrame == <<clock, storeVars, last, atomicVars, tceVars, ujeVars, uriVars,
                retry, calls, drain, poison, removal>>
retryFrame == <<clock, storeVars, last, atomicVars, tceVars, ujeVars, uriVars,
                schedVars, calls, drain, poison, removal>>

(***************************************************************************)
(* Sequences and sorted sets.                                              *)
(***************************************************************************)
Range(s) == {s[i] : i \in 1..Len(s)}
InList(s, e) == e \in Range(s)
Count(s, e) == Cardinality({i \in 1..Len(s) : s[i] = e})
Orderings(S) == {s \in [1..Cardinality(S) -> S] : Range(s) = S}
EmptyZSet == [m \in {} |-> 0]

\* the order of a sorted set: ascending score, ties by member
ZBefore(z, a, b) == z[a] < z[b] \/ (z[a] = z[b] /\ a < b)

RECURSIVE ZOrdered(_, _)
ZOrdered(z, S) ==
    IF S = {} THEN <<>>
    ELSE LET m == CHOOSE m \in S : \A n \in S \ {m} : ZBefore(z, m, n)
         IN  <<m>> \o ZOrdered(z, S \ {m})

\* ZRANGEBYSCORE key min max, with "<" in place of "<=" at the upper end
ZRangeByScoreExclusive(z, min, max) ==
    ZOrdered(z, {m \in DOMAIN z : z[m] >= min /\ z[m] < max})

\* ZRANGEBYSCORE key min max: the members with min <= score <= max, in order
ZRangeByScore(z, min, max) ==
    ZOrdered(z, {m \in DOMAIN z : z[m] >= min /\ z[m] <= max})

\* a ZREM that removes nothing
ZRemKeep(z, key) == z

\* ZREM key member
ZRem(z, key) == [m \in DOMAIN z \ {key} |-> z[m]]

\* LPUSH key member: the member goes to the head of the list
LPush(l, key) == <<key>> \o l

\* RPUSH key member
RPush(l, key) == Append(l, key)

(***************************************************************************)
(* chg_delayed_queue.lua: the script as one function of its two keys and   *)
(* of ARGV[1].  The loop of lines 23-27 runs over res.                     *)
(***************************************************************************)
RECURSIVE ScriptLoop(_, _, _, _, _)
ScriptLoop(res, i, from, to, moved) ==
    IF i > Len(res) THEN [from |-> from, to |-> to, moved |-> moved]
    ELSE ScriptLoop(res, i + 1, ZRem(from, res[i]), RPush(to, res[i]), moved + 1)

\* the script returning what its last RPUSH returned, the length of toQueue
chg_delayed_queue_llen(from, to, currentTimeMillis) ==
    LET r == ScriptLoop(ZRangeByScore(from, 0, currentTimeMillis), 1, from, to, 0)
    IN  [r EXCEPT !.moved = IF r.moved = 0 THEN 0 ELSE Len(r.to)]

chg_delayed_queue(from, to, currentTimeMillis) ==
    ScriptLoop(ZRangeByScore(from, 0, currentTimeMillis), 1, from, to, 0)

(***************************************************************************)
(* database.moveChg: runs the script with the current time.  The call      *)
(* returns the script's count, or an error of the Redis client; a call of  *)
(* the queue store that returns an error has not run.                      *)
(***************************************************************************)
NoMove == [op |-> "none", moved |-> 0, err |-> FALSE]

\* no script run in progress, nothing observed
NoEval == [pc |-> "idle", op |-> "none", from |-> redisWaitQueue,
           to |-> redisReadyQueue, res |-> <<>>, i |-> 1, moved |-> 0]
NoObs == [n |-> 0, neither |-> {}, both |-> {}]
AtomicIdle == eval = NoEval /\ obs = NoObs

\* a missing document of the table executions
NoDoc == [exists |-> FALSE, endTime |-> FALSE, desiredState |-> "UNDEFINED"]
\* TimeoutCrawlExecutions not called yet.  Beside the locals count and ceid
\* the frame records, of the cycle in progress or just ended: the ids
\* popped, the id whose update failed (0: none), whether it was pushed back,
\* the (int, error) returned and the latest update the table applied; and
\* the id the cycle before it pushed back.  upd lasts until the next store
\* call of the operation.
NoRet == [count |-> 0, err |-> "nil"]
NoUpdate == [ceid |-> 0, before |-> NoDoc, after |-> NoDoc]
NoTce == [pc |-> "idle", count |-> 0, ceid |-> 0, popped |-> <<>>, failed |-> 0,
          pushed |-> FALSE, prevFailed |-> 0, ret |-> NoRet, upd |-> NoUpdate]
TceIdle == tce = NoTce /\ executions = [c \in Ceids |-> NoDoc]

\* job execution ids; the fields of a JEID hash: a counter and the name of
\* a crawl execution state; the strings a field holds
Jeids == {1, 2}
CounterFields == {"documentsCrawled"}
StateFields == {"FETCHING"}
HashFields == CounterFields \cup StateFields
HashValues == {"1", "x"}
\* the strings written to a field: a number, and for a counter also a string
\* that is no number
FieldValues(f) == IF f \in CounterFields THEN HashValues ELSE {"1"}
NoHash == [f \in {} |-> ""]
\* a missing document of the table job_executions
NoJob == [exists |-> FALSE, state |-> "UNDEFINED", data |-> NoHash]
NoUje == [pc |-> "idle", keys |-> <<>>, jess |-> <<>>, i |-> 1, count |-> 0,
          ret |-> NoRet]
UjeIdle ==
    /\ uje = NoUje
    /\ hashes = [j \in Jeids |-> NoHash]
    /\ job_executions = [j \in Jeids |-> NoJob]

\* the ids of the rows of uri_queue; RemoveFromUriQueue between two calls
UriIds == {1, 2}
NoRfu == [pc |-> "idle", uriIds |-> <<>>, i |-> 1, removed |-> 0,
          calls |-> <<>>, ret |-> NoRet]
UriIdle == rfu = NoRfu /\ uri_queue = {}

\* the worker loops of main that the model runs, by the names main gives them
Loops == {"ceid-timeout-queue", "remuri-queue", "wait-queue"}
\* an error is the chain of its wrappings, outermost first; nil is empty
NilError == <<>>
\* a loop before its first invocation
NewLoop == [pc |-> "ready", inflight |-> 0, ret |-> NilError, err |-> NilError]
SchedIdle ==
    /\ loops = [l \in Loops |-> NewLoop]
    /\ ctxDone = FALSE
    /\ wg = [pc |-> "wait", err |-> NilError]
    /\ started = [l \in Loops |-> 0]

\* execWithRetry between two calls: no operation, no attempt, no result
NoRetryResult == [nil |-> TRUE, name |-> "", attempts |-> 0, of |-> 0, err |-> "nil"]
NoRetry == [pc |-> "idle", name |-> "", maxRetries |-> 0, attempts |-> 0,
            err |-> "nil", log |-> <<>>, ret |-> NoRetryResult]
RetryIdle == retry = NoRetry

\* moveChg not called yet.  A call is recorded with the script's name for
\* it, its ARGV[1], the two queues as it met them and what it returned.
NoCall == [op |-> "none", now |-> 0, from |-> EmptyZSet, to |-> <<>>,
           moved |-> 0, err |-> FALSE]
NoCalls == [prev |-> NoCall, cur |-> NoCall]
CallsIdle == calls = NoCalls

\* nothing put in the timeout queue yet, no rollback push has failed
NoDrain == [todo |-> {}, rollbackFailed |-> FALSE]
DrainIdle == drain = NoDrain
\* no id is singled out: any update may fail or not
PoisonIdle == poison = 0
\* no removal cycle followed yet
NoRemoval == [stage |-> "none", uri_queue |-> {}, remUri |-> <<>>]
RemovalIdle == removal = NoRemoval

moveChg(op, fromQueue, toQueue) ==
    LET r == chg_delayed_queue(zsets[fromQueue], lists[toQueue], clock)
    IN  \/ /\ zsets' = [zsets EXCEPT ![fromQueue] = r.from]
           /\ lists' = [lists EXCEPT ![toQueue] = r.to]
           /\ last' = [op |-> op, moved |-> r.moved, err |-> FALSE]
        \/ /\ UNCHANGED storeVars
           /\ last' = [op |-> op, moved |-> 0, err |-> TRUE]

\* the same call seen from the other operations: what it does to the store
moveChgEffect(fromQueue, toQueue) ==
    LET r == chg_delayed_queue(zsets[fromQueue], lists[toQueue], clock)
    IN  /\ r.moved > 0
        /\ zsets' = [zsets EXCEPT ![fromQueue] = r.from]
        /\ lists' = [lists EXCEPT ![toQueue] = r.to]

MoveWaitToReady ==
    /\ moveChg("MoveWaitToReady", redisWaitQueue, redisReadyQueue)
    /\ UNCHANGED <<clock, moveFrame>>

\* the busy queue moved to the ready queue
MoveBusyToReady ==
    /\ moveChg("MoveBusyToTimeout", redisBusyQueue, redisReadyQueue)
    /\ UNCHANGED <<clock, moveFrame>>

MoveBusyToTimeout ==
    /\ moveChg("MoveBusyToTimeout", redisBusyQueue, redisTimeoutQueue)
    /\ UNCHANGED <<clock, moveFrame>>

MoveRunningToTimeout ==
    /\ moveChg("MoveRunningToTimeout", redisCrawlExecutionRunningQueue,
               redisCrawlExecutionTimeoutQueue)
    /\ UNCHANGED <<clock, moveFrame>>

\* time passes
Tick ==
    /\ clock < MaxTime
    /\ clock' = clock + 1
    /\ UNCHANGED <<zsets, lists, last, moveFrame>>

(***************************************************************************)
(* The move specification: the three delayed moves over queues that start  *)
(* with every crawl host group in at most one of its four queues.          *)
(***************************************************************************)
Places == {"none", "wait", "ready", "busy", "timeout"}

ZSetOf(place, score, name) ==
    [k \in {k \in DOMAIN place : place[k] = name} |-> score[k]]

InitQueues(places) ==
    /\ clock = 0
    /\ \E place \in [Chgs -> places], score \in [Chgs -> Scores] :
        \E ready \in Orderings({k \in Chgs : place[k] = "ready"}),
           timeout \in Orderings({k \in Chgs : place[k] = "timeout"}) :
            /\ zsets = [z \in ZKeys |->
                  CASE z = redisWaitQueue -> ZSetOf(place, score, "wait")
                    [] z = redisBusyQueue -> ZSetOf(place, score, "busy")
                    [] OTHER -> [c \in Ceids |-> (c + 1) % 3]]
            /\ lists = [l \in LKeys |->
                  CASE l = redisReadyQueue -> ready
                    [] l = redisTimeoutQueue -> timeout
                    [] OTHER -> <<>>]
    /\ last = NoMove

InitMove == InitQueues(Places) /\ AtomicIdle /\ TceIdle /\ UjeIdle /\ UriIdle /\ SchedIdle /\ RetryIdle /\ CallsIdle /\ DrainIdle /\ PoisonIdle /\ RemovalIdle

NextMove ==
    \/ MoveWaitToReady
    \/ MoveBusyToTimeout
    \/ MoveRunningToTimeout
    \/ Tick

SpecMove == InitMove /\ [][NextMove]_vars

MovePairs ==
    {[op |-> "MoveWaitToReady", from |-> redisWaitQueue, to |-> redisReadyQueue],
     [op |-> "MoveBusyToTimeout", from |-> redisBusyQueue, to |-> redisTimeoutQueue],
     [op |-> "MoveRunningToTimeout", from |-> redisCrawlExecutionRunningQueue,
      to |-> redisCrawlExecutionTimeoutQueue]}

(***************************************************************************)
(* C2.  A call of move that returns without error takes every entry of     *)
(* fromQueue whose score is <= now out of fromQueue and puts it in         *)
(* toQueue, and leaves every entry whose score is > now in fromQueue with  *)
(* its score, adding no copy of it to toQueue.                             *)
(***************************************************************************)
MovePost(fromQueue, toQueue) ==
    \A e \in DOMAIN zsets[fromQueue] :
        /\ zsets[fromQueue][e] <= clock =>
              /\ e \notin DOMAIN zsets'[fromQueue]
              /\ InList(lists'[toQueue], e)
        /\ zsets[fromQueue][e] > clock =>
              /\ e \in DOMAIN zsets'[fromQueue]
              /\ zsets'[fromQueue][e] = zsets[fromQueue][e]
              /\ Count(lists'[toQueue], e) = Count(lists[toQueue], e)

C2_MoveTakesExactlyTheDue ==
    [][\A p \in MovePairs :
          (moveChg(p.op, p.from, p.to) /\ ~last'.err) => MovePost(p.from, p.to)]_vars

\* wait = [(1, due), (2, not due)] has become ready = [1], wait = [(2, .)]
C2_Witness ==
    /\ last = [op |-> "MoveWaitToReady", moved |-> 1, err |-> FALSE]
    /\ lists[redisReadyQueue] = <<1>>
    /\ DOMAIN zsets[redisWaitQueue] = {2}
    /\ zsets[redisWaitQueue][2] > clock

(***************************************************************************)
(* C3.  No double state: every crawl host group key is in at most one of   *)
(* the wait, ready, busy and timeout queues, in every state reached from   *)
(* one where that is so by MoveWaitToReady and MoveBusyToTimeout calls.    *)
(***************************************************************************)
InQueue(q, k) ==
    IF q \in ZKeys THEN k \in DOMAIN zsets[q] ELSE InList(lists[q], k)

ChgQueues == {redisWaitQueue, redisReadyQueue, redisBusyQueue, redisTimeoutQueue}

C3_NoDoubleState ==
    \A k \in Chgs : Cardinality({q \in ChgQueues : InQueue(q, k)}) <= 1

\* a busy entry has just been moved to the timeout queue while another
\* entry is in the ready queue, and each is in that one queue only
C3_Witness ==
    /\ last.op = "MoveBusyToTimeout" /\ last.moved > 0
    /\ lists[redisReadyQueue] # <<>>
    /\ lists[redisTimeoutQueue] # <<>>
    /\ \A k \in Chgs : Cardinality({q \in ChgQueues : InQueue(q, k)}) = 1

(***************************************************************************)
(* The script, one redis.call at a time.  moveChg runs the move as a       *)
(* script (redis.Script.Run, EVALSHA): Redis runs a script to its end      *)
(* before it runs the command of any other client.                         *)
(***************************************************************************)
\* as if the calls of the move were separate commands of the client
CommandMayRunAnytime == TRUE

\* a command of another client runs only when no script is running
CommandMayRun == eval.pc = "idle"

\* lines 17-22: KEYS, ARGV, ZRANGEBYSCORE, moved = 0
EvalStart(p) ==
    /\ eval.pc = "idle"
    /\ LET res == ZRangeByScore(zsets[p.from], 0, clock)
       IN  eval' = [pc |-> IF res = <<>> THEN "return" ELSE "zrem", op |-> p.op,
                    from |-> p.from, to |-> p.to, res |-> res, i |-> 1,
                    moved |-> 0]
    /\ UNCHANGED <<clock, zsets, lists, last, obs, atomicFrame>>

\* line 24
EvalZRem ==
    /\ eval.pc = "zrem"
    /\ zsets' = [zsets EXCEPT ![eval.from] = ZRem(@, eval.res[eval.i])]
    /\ eval' = [eval EXCEPT !.pc = "rpush"]
    /\ UNCHANGED <<clock, lists, last, obs, atomicFrame>>

\* lines 25-27
EvalRPush ==
    /\ eval.pc = "rpush"
    /\ lists' = [lists EXCEPT ![eval.to] = RPush(@, eval.res[eval.i])]
    /\ eval' = [eval EXCEPT !.pc = IF eval.i + 1 > Len(eval.res)
                                   THEN "return" ELSE "zrem",
                            !.i = @ + 1, !.moved = @ + 1]
    /\ UNCHANGED <<clock, zsets, last, obs, atomicFrame>>

\* line 28: the script ends; eval.moved is the count moveChg returns
EvalReturn ==
    /\ eval.pc = "return"
    /\ eval' = [eval EXCEPT !.pc = "idle", !.i = 1]
    /\ UNCHANGED <<clock, zsets, lists, last, obs, atomicFrame>>

\* another client reads, in one command, where the entries of the latest
\* script run are: how many it selected, which of them are in neither
\* queue and which are in both
Observe ==
    /\ CommandMayRun
    /\ LET inFrom == Range(eval.res) \cap DOMAIN zsets[eval.from]
           inTo == Range(eval.res) \cap Range(lists[eval.to])
       IN  obs' = [n |-> Len(eval.res),
                   neither |-> Range(eval.res) \ (inFrom \cup inTo),
                   both |-> inFrom \cap inTo]
    /\ UNCHANGED <<clock, zsets, lists, last, eval, atomicFrame>>

\* every crawl host group starts in a scored queue or in none
InitAtomic ==
    InitQueues({"none", "wait", "busy"}) /\ AtomicIdle /\ TceIdle /\ UjeIdle /\ UriIdle /\ SchedIdle /\ RetryIdle /\ CallsIdle /\ DrainIdle /\ PoisonIdle /\ RemovalIdle

NextAtomic ==
    \/ \E p \in MovePairs : EvalStart(p)
    \/ EvalZRem
    \/ EvalRPush
    \/ EvalReturn
    \/ Observe
    \/ Tick

SpecAtomic == InitAtomic /\ [][NextAtomic]_vars

(***************************************************************************)
(* C1.  The delayed move is one atomic step of the queue store: whenever   *)
(* another client reads the store, each entry the move selected is in      *)
(* exactly one of fromQueue and toQueue.                                   *)
(***************************************************************************)
C1_MoveIsAtomic == obs.neither = {} /\ obs.both = {}

\* a reader has seen the entries of a script run that moved two of them
C1_Witness ==
    /\ obs.n >= 2
    /\ eval.pc = "idle" /\ eval.moved >= 2
    /\ Range(eval.res) \subseteq Range(lists[eval.to])

(***************************************************************************)
(* database.TimeoutCrawlExecutions, one store call at a time, beside the   *)
(* move that fills the queue it drains and the crawler that ends           *)
(* executions.                                                             *)
(***************************************************************************)
\* the update without its endTime test
AbortedTimeoutUnguarded(doc) == [doc EXCEPT !.desiredState = "ABORTED_TIMEOUT"]

\* an update that writes nothing
AbortedTimeoutNever(doc) == doc

\* lines 249-256: the function Update applies to the document
AbortedTimeoutUpdate(doc) ==
    IF doc.endTime THEN doc
    ELSE [doc EXCEPT !.desiredState = "ABORTED_TIMEOUT"]

\* Get(id).Update(f) on the table: a missing document is skipped; Replaced
\* counts the documents that changed
setCrawlExecutionStateAbortedTimeout(doc) ==
    LET new == IF doc.exists THEN AbortedTimeoutUpdate(doc) ELSE doc
    IN  [doc |-> new, replaced |-> IF new # doc THEN 1 ELSE 0]

\* an LPUSH in place of the RPUSH of the rollback
RollbackAtHead(l, ceid) == <<ceid>> \o l

\* a rollback that pushes nothing and reports no error
RollbackDrop(l, ceid) == l

\* line 236: RPush(redisCrawlExecutionTimeoutQueue, ceid)
RollbackPush(l, ceid) == RPush(l, ceid)

\* a call of TimeoutCrawlExecutions begins: count := 0
TceStart ==
    /\ tce.pc = "idle"
    /\ tce' = [NoTce EXCEPT !.pc = "lpop",
                            !.prevFailed = IF tce.pushed THEN tce.failed ELSE 0]
    /\ UNCHANGED <<clock, zsets, lists, executions, tceFrame>>

\* the loop ending one entry early: redis.Nil taken at the last entry
TceLPopStopsAtLast ==
    /\ tce.pc = "lpop"
    /\ LET q == lists[redisCrawlExecutionTimeoutQueue]
       IN  \/ /\ Len(q) <= 1
              /\ tce' = [tce EXCEPT !.pc = "idle", !.upd = NoUpdate,
                                    !.ret = [count |-> tce.count, err |-> "nil"]]
              /\ UNCHANGED lists
           \/ /\ Len(q) > 1
              /\ lists' = [lists EXCEPT ![redisCrawlExecutionTimeoutQueue] = Tail(q)]
              /\ tce' = [tce EXCEPT !.pc = "update", !.ceid = Head(q),
                                    !.upd = NoUpdate,
                                    !.popped = Append(@, Head(q))]
           \/ /\ tce' = [tce EXCEPT !.pc = "idle", !.upd = NoUpdate,
                                    !.ret = [count |-> tce.count, err |-> "lpop"]]
              /\ UNCHANGED lists
    /\ UNCHANGED <<clock, zsets, executions, tceFrame>>

\* lines 226-231: LPop; redis.Nil ends the loop, another error returns
TceLPop ==
    /\ tce.pc = "lpop"
    /\ LET q == lists[redisCrawlExecutionTimeoutQueue]
       IN  \/ /\ q = <<>>
              /\ tce' = [tce EXCEPT !.pc = "idle", !.upd = NoUpdate,
                                    !.ret = [count |-> tce.count, err |-> "nil"]]
              /\ UNCHANGED lists
           \/ /\ q # <<>>
              /\ lists' = [lists EXCEPT ![redisCrawlExecutionTimeoutQueue] = Tail(q)]
              /\ tce' = [tce EXCEPT !.pc = "update", !.ceid = Head(q),
                                    !.upd = NoUpdate,
                                    !.popped = Append(@, Head(q))]
           \/ /\ tce' = [tce EXCEPT !.pc = "idle", !.upd = NoUpdate,
                                    !.ret = [count |-> tce.count, err |-> "lpop"]]
              /\ UNCHANGED lists
    /\ UNCHANGED <<clock, zsets, executions, tceFrame>>

\* lines 233-242: the conditional update; it returns without error, or with
\* an error after the write was or was not applied
TceUpdate ==
    /\ tce.pc = "update"
    /\ LET doc == executions[tce.ceid]
           r == setCrawlExecutionStateAbortedTimeout(doc)
           applied == [ceid |-> tce.ceid, before |-> doc, after |-> r.doc]
       IN  \/ /\ executions' = [executions EXCEPT ![tce.ceid] = r.doc]
              /\ tce' = [tce EXCEPT !.pc = "lpop", !.count = @ + r.replaced,
                                    !.upd = applied]
           \/ /\ executions' = [executions EXCEPT ![tce.ceid] = r.doc]
              /\ tce' = [tce EXCEPT !.pc = "rpush", !.failed = tce.ceid,
                                    !.upd = applied]
           \/ /\ UNCHANGED executions
              /\ tce' = [tce EXCEPT !.pc = "rpush", !.failed = tce.ceid]
    /\ UNCHANGED <<clock, zsets, lists, tceFrame>>

\* lines 235-244: the rollback push, then break and return count, nil; or
\* the push fails and both errors are returned
TceRollback ==
    /\ tce.pc = "rpush"
    /\ \/ /\ lists' = [lists EXCEPT ![redisCrawlExecutionTimeoutQueue] =
                          RollbackPush(@, tce.ceid)]
          /\ tce' = [tce EXCEPT !.pc = "idle", !.pushed = TRUE, !.upd = NoUpdate,
                                !.ret = [count |-> tce.count, err |-> "nil"]]
       \/ /\ UNCHANGED lists
          /\ tce' = [tce EXCEPT !.pc = "idle", !.upd = NoUpdate,
                                !.ret = [count |-> tce.count, err |-> "rollback"]]
    /\ UNCHANGED <<clock, zsets, executions, tceFrame>>

\* the crawler ends an execution: its document gets an endTime
FinishExecution(c) ==
    /\ executions[c].exists /\ ~executions[c].endTime
    /\ executions' = [executions EXCEPT ![c].endTime = TRUE]
    /\ UNCHANGED <<clock, zsets, lists, tce, tceFrame>>

\* the move and the clock beside a cycle in progress
TceMoveRunningToTimeout ==
    /\ moveChgEffect(redisCrawlExecutionRunningQueue,
                     redisCrawlExecutionTimeoutQueue)
    /\ UNCHANGED <<clock, tceVars, tceFrame>>

TceTick ==
    /\ clock < MaxTime
    /\ clock' = clock + 1
    /\ UNCHANGED <<zsets, lists, tceVars, tceFrame>>

RunningDoc == [exists |-> TRUE, endTime |-> FALSE, desiredState |-> "UNDEFINED"]
EndedDoc == [exists |-> TRUE, endTime |-> TRUE, desiredState |-> "UNDEFINED"]

InitTimeout ==
    /\ clock = 0
    /\ last = NoMove
    /\ AtomicIdle
    /\ tce = NoTce
    /\ UjeIdle
    /\ UriIdle
    /\ SchedIdle
    /\ RetryIdle /\ CallsIdle /\ DrainIdle /\ PoisonIdle /\ RemovalIdle
    /\ executions \in [Ceids -> {NoDoc, RunningDoc, EndedDoc}]
    /\ \E place \in [Ceids -> {"none", "running", "timeout"}] :
        \E timeout \in Orderings({c \in Ceids : place[c] = "timeout"}) :
            /\ zsets = [z \in ZKeys |->
                  IF z = redisCrawlExecutionRunningQueue
                  THEN ZSetOf(place, [c \in Ceids |-> (c + 1) % 3], "running")
                  ELSE EmptyZSet]
            /\ lists = [l \in LKeys |->
                  IF l = redisCrawlExecutionTimeoutQueue THEN timeout ELSE <<>>]

\* the steps of this part of the system, with no account kept of the ids
\* that went through the timeout queue
StartStep == TceStart /\ UNCHANGED drain
LPopStep == TceLPop /\ UNCHANGED drain
UpdateStep == TceUpdate /\ UNCHANGED drain
RollbackStep == TceRollback /\ UNCHANGED drain
FinishStep == \E c \in Ceids : FinishExecution(c) /\ UNCHANGED drain
MoveStep == TceMoveRunningToTimeout /\ UNCHANGED drain
TickStep == TceTick /\ UNCHANGED drain

NextTimeout ==
    \/ StartStep
    \/ LPopStep
    \/ UpdateStep
    \/ RollbackStep
    \/ FinishStep
    \/ MoveStep
    \/ TickStep

SpecTimeout == InitTimeout /\ [][NextTimeout]_vars

TimeoutQueue == lists[redisCrawlExecutionTimeoutQueue]

(***************************************************************************)
(* C4.  Timeout rollback.  As claimed: once the update of a popped id      *)
(* failed and the id was pushed back, the next cycle pops that id again    *)
(* (stated here for the next cycles in which no queue-store call fails).   *)
(***************************************************************************)
C4_NextCyclePopsItAgain ==
    (tce.pc = "idle" /\ tce.prevFailed # 0 /\ tce.ret.err = "nil") =>
        InList(tce.popped, tce.prevFailed)

(***************************************************************************)
(* C4, amended.  When the update of a popped id fails and the push-back    *)
(* succeeds, the id is appended to the tail of the timeout queue, no       *)
(* further id is popped in that cycle and the id stays in the queue; the   *)
(* next cycle pops it again unless that cycle ends before it gets there,   *)
(* at a failed pop or at the failed update of an id ahead of it.           *)
(***************************************************************************)
C4_RollbackState ==
    /\ tce.failed # 0 =>
          /\ tce.pc \in {"rpush", "idle"}
          /\ tce.popped # <<>> /\ tce.popped[Len(tce.popped)] = tce.failed
    /\ (tce.pc = "idle" /\ tce.pushed) => InList(TimeoutQueue, tce.failed)
    /\ (tce.pc = "idle" /\ tce.prevFailed # 0) =>
          \/ InList(tce.popped, tce.prevFailed)
          \/ tce.failed # 0
          \/ tce.ret.err = "lpop"

C4_RollbackStep ==
    (tce.pc = "rpush" /\ tce'.pushed) =>
        /\ TimeoutQueue' = Append(TimeoutQueue, tce.failed)
        /\ tce'.pc = "idle"

C4_TimeoutRollback == []C4_RollbackState /\ [][C4_RollbackStep]_vars

\* the cycle after the one that pushed 2 back has popped 2 again, after 1
C4_Witness ==
    /\ tce.pc = "idle" /\ tce.prevFailed = 2
    /\ tce.popped = <<1, 2>>

(***************************************************************************)
(* C5.  When the update of a popped id fails and the rollback push         *)
(* succeeds, TimeoutCrawlExecutions returns the count of the ids updated   *)
(* before it together with a non-nil error.                                *)
(***************************************************************************)
C5_UpdateErrorIsReturned ==
    (tce.pc = "idle" /\ tce.failed # 0 /\ tce.pushed) =>
        /\ tce.ret.count = tce.count
        /\ tce.ret.err # "nil"

(***************************************************************************)
(* C6.  End-time guard: the conditional update leaves a document that has  *)
(* an endTime as it is, and sets desiredState to ABORTED_TIMEOUT, changing *)
(* nothing else, on a document that has none; so this system sets          *)
(* ABORTED_TIMEOUT only on a record that had no endTime at that instant.   *)
(***************************************************************************)
C6_EndTimeGuard ==
    LET u == tce.upd
    IN  u.ceid # 0 =>
          /\ (u.before.exists /\ u.before.endTime) => u.after = u.before
          /\ (u.before.exists /\ ~u.before.endTime) =>
                u.after = [u.before EXCEPT !.desiredState = "ABORTED_TIMEOUT"]
          /\ u.after # u.before => ~u.before.endTime

\* in one cycle an update has set ABORTED_TIMEOUT and the next one has met a
\* document with an endTime
C6_Witness ==
    /\ tce.upd.ceid # 0
    /\ tce.upd.before.exists /\ tce.upd.before.endTime
    /\ tce.count >= 1
    /\ \E c \in Ceids : /\ executions[c].desiredState = "ABORTED_TIMEOUT"
                        /\ ~executions[c].endTime

(***************************************************************************)
(* database.UpdateJobExecutions, one store call at a time, beside the      *)
(* fetch workers that write the JEID hashes and end job executions.        *)
(***************************************************************************)
\* lines 207-214: the states in which a job execution is no longer active
TerminalStates == {"FINISHED", "ABORTED_TIMEOUT", "ABORTED_SIZE",
                   "ABORTED_MANUAL", "FAILED", "DIED"}
JobStates == {"RUNNING"} \cup TerminalStates

\* strconv.ParseInt(v, 10, 64) on the strings a field holds
ParseInt(v) ==
    CASE v = "1" -> [val |-> 1, err |-> FALSE]
      [] OTHER -> [val |-> 0, err |-> TRUE]

\* lines 178-195: the map built from one hash, its state fields met in the
\* given order.  A field that does not parse is left out; a field named as a crawl
\* execution state is appended to the list executionsState as a one-entry
\* map; every other field becomes a field of the map.  (The id is kept
\* beside the map, in the frame.)
DecodeJobExecution(jeMap, order) ==
    LET parsed == {k \in DOMAIN jeMap : ~ParseInt(jeMap[k]).err}
        plain == {k \in parsed : k \notin StateFields}
        states == SelectSeq(order, LAMBDA k : k \in parsed /\ k \in StateFields)
    IN  [k \in plain \cup {"executionsState"} |->
            IF k = "executionsState"
            THEN [n \in 1..Len(states) |->
                    [name |-> states[n], c |-> ParseInt(jeMap[states[n]]).val]]
            ELSE ParseInt(jeMap[k]).val]

\* Update(jes) on a document: the fields of jes replace the document's
Merge(data, jes) ==
    [k \in DOMAIN data \cup DOMAIN jes |->
        IF k \in DOMAIN jes THEN jes[k] ELSE data[k]]

\* the update without the branch on the state
OverwriteJobExecution(doc, jes) ==
    LET new == IF ~doc.exists THEN doc
               ELSE [doc EXCEPT !.data = Merge(doc.data, jes)]
    IN  [doc |-> new, replaced |-> IF new # doc THEN 1 ELSE 0]

\* the update that writes nothing
SkipJobExecution(doc, jes) == [doc |-> doc, replaced |-> 0]

\* lines 202-221: Get(id).Update(f): nothing when the state is terminal,
\* jes merged into the document otherwise; a missing document is skipped
updateJobExecution(doc, jes) ==
    LET new == IF ~doc.exists THEN doc
               ELSE IF doc.state \in TerminalStates THEN doc
               ELSE [doc EXCEPT !.data = Merge(doc.data, jes)]
    IN  [doc |-> new, replaced |-> IF new # doc THEN 1 ELSE 0]

\* lines 161-165: KEYS JEID:*, in the order the store gives them
UjeKeys ==
    /\ uje.pc = "idle"
    /\ \/ \E keys \in Orderings({j \in Jeids : hashes[j] # NoHash}) :
            uje' = [NoUje EXCEPT !.pc = "exists", !.keys = keys]
       \/ uje' = [NoUje EXCEPT !.ret = [count |-> 0, err |-> "get"]]
    /\ UNCHANGED <<hashes, job_executions, ujeFrame>>

\* lines 168-173: EXISTS key; a key that is gone is passed over
UjeExists ==
    /\ uje.pc = "exists"
    /\ \/ /\ uje.i > Len(uje.keys)
          /\ uje' = [uje EXCEPT !.pc = "update", !.keys = <<>>, !.i = 1]
       \/ /\ uje.i <= Len(uje.keys)
          /\ \/ IF hashes[uje.keys[uje.i]] = NoHash
                THEN uje' = [uje EXCEPT !.i = @ + 1]
                ELSE uje' = [uje EXCEPT !.pc = "hgetall"]
             \/ uje' = [NoUje EXCEPT !.ret = [count |-> 0, err |-> "get"]]
    /\ UNCHANGED <<hashes, job_executions, ujeFrame>>

\* lines 174-196: HGETALL key and the map built from its reply
UjeHGetAll ==
    /\ uje.pc = "hgetall"
    /\ LET key == uje.keys[uje.i]
           jeMap == hashes[key]
       IN  \/ \E order \in Orderings(DOMAIN jeMap \cap StateFields) :
                uje' = [uje EXCEPT
                          !.pc = "exists", !.i = @ + 1,
                          !.jess = Append(@, [id |-> key,
                                              jes |-> DecodeJobExecution(jeMap, order)])]
           \/ uje' = [NoUje EXCEPT !.ret = [count |-> 0, err |-> "get"]]
    /\ UNCHANGED <<hashes, job_executions, ujeFrame>>

\* the updates with a cleanup of the cache: the hash of a job execution
\* whose record is terminal is deleted
UjeUpdateDropsStale ==
    /\ uje.pc = "update"
    /\ \/ /\ uje.i > Len(uje.jess)
          /\ uje' = [uje EXCEPT !.pc = "idle", !.i = 1,
                                !.ret = [count |-> uje.count, err |-> "nil"]]
          /\ UNCHANGED <<job_executions, hashes>>
       \/ /\ uje.i <= Len(uje.jess)
          /\ LET e == uje.jess[uje.i]
                 doc == job_executions[e.id]
                 res == updateJobExecution(doc, e.jes)
             IN  /\ job_executions' = [job_executions EXCEPT ![e.id] = res.doc]
                 /\ hashes' = IF doc.state \in TerminalStates
                              THEN [hashes EXCEPT ![e.id] = NoHash] ELSE hashes
                 /\ uje' = [uje EXCEPT !.i = @ + 1, !.count = @ + res.replaced]
    /\ UNCHANGED ujeFrame

\* lines 147-155: the updates, one job execution after the other.  A write
\* that fails may or may not have reached the table; the call then returns
\* the Replaced count of the failed response, which is 0.
UjeUpdate ==
    /\ uje.pc = "update"
    /\ \/ /\ uje.i > Len(uje.jess)
          /\ uje' = [uje EXCEPT !.pc = "idle", !.i = 1,
                                !.ret = [count |-> uje.count, err |-> "nil"]]
          /\ UNCHANGED job_executions
       \/ /\ uje.i <= Len(uje.jess)
          /\ LET e == uje.jess[uje.i]
                 doc == job_executions[e.id]
                 res == updateJobExecution(doc, e.jes)
             IN  \/ /\ job_executions' = [job_executions EXCEPT ![e.id] = res.doc]
                    /\ uje' = [uje EXCEPT !.i = @ + 1,
                                          !.count = @ + res.replaced]
                 \/ /\ \/ job_executions' = [job_executions EXCEPT ![e.id] = res.doc]
                       \/ UNCHANGED job_executions
                    /\ uje' = [uje EXCEPT !.pc = "idle", !.i = 1,
                                          !.ret = [count |-> 0, err |-> "update"]]
    /\ UNCHANGED <<hashes, ujeFrame>>

\* the frontier writes a field of the hash of a job execution
HSet(j, f, v) ==
    /\ hashes' = [hashes EXCEPT ![j] =
                    [k \in DOMAIN @ \cup {f} |-> IF k = f THEN v ELSE @[k]]]
    /\ UNCHANGED <<job_executions, uje, ujeFrame>>

\* the frontier deletes the hash of a job execution
HDel(j) ==
    /\ hashes[j] # NoHash
    /\ hashes' = [hashes EXCEPT ![j] = NoHash]
    /\ UNCHANGED <<job_executions, uje, ujeFrame>>

\* a job execution ends: its state becomes terminal
JobEnds(j, t) ==
    /\ job_executions[j].exists
    /\ job_executions[j].state \notin TerminalStates
    /\ job_executions' = [job_executions EXCEPT ![j].state = t]
    /\ UNCHANGED <<hashes, uje, ujeFrame>>

\* a job execution as it was created, before any update
NewJob(state) ==
    [exists |-> TRUE, state |-> state,
     data |-> [k \in CounterFields \cup {"executionsState"} |->
                 IF k \in CounterFields THEN 0 ELSE <<>>]]

InitJob ==
    /\ InitQueues({"none"})
    /\ AtomicIdle
    /\ TceIdle
    /\ UriIdle
    /\ SchedIdle
    /\ RetryIdle /\ CallsIdle /\ DrainIdle /\ PoisonIdle /\ RemovalIdle
    /\ uje = NoUje
    /\ hashes = [j \in Jeids |-> NoHash]
    /\ job_executions = [j \in Jeids |-> IF j = 1 THEN NewJob("RUNNING") ELSE NoJob]

NextJob ==
    \/ UjeKeys
    \/ UjeExists
    \/ UjeHGetAll
    \/ UjeUpdate
    \/ \E j \in Jeids, f \in HashFields : \E v \in FieldValues(f) : HSet(j, f, v)
    \/ \E j \in Jeids : HDel(j)
    \/ \E j \in Jeids, t \in TerminalStates : JobEnds(j, t)

SpecJob == InitJob /\ [][NextJob]_vars

\* the entries of the cycle's scan: the id and the map decoded for it
Scanned == {uje.jess[i] : i \in 1..Len(uje.jess)}
CycleSucceeded == uje.pc = "idle" /\ uje.ret.err = "nil"

\* C7: an update of UpdateJobExecutions leaves every job execution whose
\* state is terminal (FINISHED, ABORTED_TIMEOUT, ABORTED_SIZE,
\* ABORTED_MANUAL, FAILED, DIED) exactly as it was, whatever the map decoded
\* from its hash holds, and whether the write returned an error or not.
C7_TerminalJobImmutable ==
    [][UjeUpdate =>
        \A j \in Jeids :
            job_executions[j].state \in TerminalStates
                => job_executions'[j] = job_executions[j]]_vars

\* a cycle has ended without error, the hash of a scanned job execution
\* still holds the counter 1, and its terminal record kept the counter 0
C7_Witness ==
    /\ CycleSucceeded
    /\ \E e \in Scanned :
        /\ job_executions[e.id].state \in TerminalStates
        /\ "documentsCrawled" \in DOMAIN e.jes
        /\ e.jes["documentsCrawled"] = 1
        /\ hashes[e.id]["documentsCrawled"] = "1"
        /\ job_executions[e.id].data["documentsCrawled"] = 0

\* C8, the scan: the map decoded from a hash holds, for every field of the
\* hash that is no state name and whose value is a number, that number.
C8_ScanStep ==
    UjeHGetAll /\ uje'.pc = "exists" =>
        LET e == uje'.jess[Len(uje'.jess)]
            jeMap == hashes[e.id]
        IN  \A k \in DOMAIN jeMap \ StateFields :
                ~ParseInt(jeMap[k]).err
                    => k \in DOMAIN e.jes /\ e.jes[k] = ParseInt(jeMap[k]).val

\* C8, the end of the cycle: when a cycle has returned without error, every
\* scanned job execution that has a record in a non-terminal state holds in
\* that record the values of the map decoded at the scan.
C8_CycleEnd ==
    CycleSucceeded =>
        \A e \in Scanned :
            LET doc == job_executions[e.id]
            IN  (doc.exists /\ doc.state \notin TerminalStates)
                    => \A k \in DOMAIN e.jes :
                            k \in DOMAIN doc.data /\ doc.data[k] = e.jes[k]

\* C8: a successful UpdateJobExecutions cycle leaves the record of every
\* non-terminal job execution that had a hash with the counters decoded from
\* that hash at the time of the scan.
C8_ActiveJobGetsCacheCounters == []C8_CycleEnd /\ [][C8_ScanStep]_vars

\* a cycle has ended without error and counted one update; the record holds
\* the counter 1 of the scan although the hash has been deleted since
C8_Witness ==
    /\ CycleSucceeded
    /\ uje.ret.count = 1
    /\ \E e \in Scanned :
        /\ job_executions[e.id].state = "RUNNING"
        /\ "documentsCrawled" \in DOMAIN e.jes
        /\ job_executions[e.id].data["documentsCrawled"] = 1
        /\ hashes[e.id] = NoHash

(***************************************************************************)
(* database.RemoveFromUriQueue, one store call at a time, beside the       *)
(* producer that appends ids to REMURI and the writer of uri_queue.        *)
(***************************************************************************)
\* the stop index of the LRANGE (9999 in the code, scaled): a batch holds at
\* most LRangeStop + 1 ids
LRangeStop == 1
\* the longest removal queue the producer builds
MaxRemUri == 3

RemUri == lists[redisRemoveUriQueue]
Min(a, b) == IF a <= b THEN a ELSE b
IsPrefix(a, b) == Len(a) <= Len(b) /\ SubSeq(b, 1, Len(a)) = a
Call(op, err) == [op |-> op, err |-> err]

\* the read that ignores the stop index
LRangeAll(l, start, stop) == l

\* LRANGE key start stop: the members at the indices start..stop, from 0
LRange(l, start, stop) == SubSeq(l, start + 1, Min(stop + 1, Len(l)))

\* the removal of every member equal to id
LRemAll(l, count, id) == SelectSeq(l, LAMBDA m : m # id)

\* LREM key count id, count > 0: the first count members equal to id go
RECURSIVE LRem(_, _, _)
LRem(l, count, id) ==
    IF count = 0 \/ ~InList(l, id) THEN l
    ELSE LET i == CHOOSE i \in 1..Len(l) :
                    l[i] = id /\ \A j \in 1..(i - 1) : l[j] # id
         IN  LRem(SubSeq(l, 1, i - 1) \o SubSeq(l, i + 1, Len(l)), count - 1, id)

\* the flow that goes on to the cleanup whatever the delete returned
AfterDeleteIgnoreError(err) == "lrem"

\* lines 114-116: an error of the delete ends the call, before the cleanup
AfterDelete(err) == IF err THEN "idle" ELSE "lrem"

\* lines 104-110: LRANGE REMURI 0 9999; nothing more when the reply is empty
RfuLRange ==
    /\ rfu.pc = "idle"
    /\ \/ LET uriIds == LRange(RemUri, 0, LRangeStop)
              read == [NoRfu EXCEPT !.calls = <<Call("LRANGE", FALSE)>>]
          IN  rfu' = IF Len(uriIds) = 0 THEN read
                     ELSE [read EXCEPT !.pc = "delete", !.uriIds = uriIds]
       \/ rfu' = [NoRfu EXCEPT !.calls = <<Call("LRANGE", TRUE)>>,
                               !.ret = [count |-> 0, err |-> "lrange"]]
    /\ UNCHANGED <<lists, uri_queue, uriFrame>>

\* lines 113-116 and 124-131: GetAll(uriIds).Delete().  A delete that
\* returns an error may have deleted some of the rows, and its response
\* counts them or is empty.
RfuDelete ==
    /\ rfu.pc = "delete"
    /\ LET rows == Range(rfu.uriIds) \cap uri_queue
       IN  \/ /\ uri_queue' = uri_queue \ rows
              /\ rfu' = [rfu EXCEPT !.pc = AfterDelete(FALSE),
                                    !.removed = Cardinality(rows),
                                    !.calls = Append(@, Call("DELETE", FALSE))]
           \/ \E deleted \in SUBSET rows : \E n \in {0, Cardinality(deleted)} :
                /\ uri_queue' = uri_queue \ deleted
                /\ rfu' = [rfu EXCEPT
                             !.pc = AfterDelete(TRUE),
                             !.removed = n,
                             !.calls = Append(@, Call("DELETE", TRUE)),
                             !.ret = IF AfterDelete(TRUE) = "idle"
                                     THEN [count |-> n, err |-> "delete"]
                                     ELSE @]
    /\ UNCHANGED <<lists, uriFrame>>

\* lines 118-121 and 133-140: the pipeline of LREM REMURI 1 id, one command
\* after the other; an error of the pipeline leaves the later commands out
RfuLRem ==
    /\ rfu.pc = "lrem"
    /\ \/ /\ rfu.i > Len(rfu.uriIds)
          /\ rfu' = [rfu EXCEPT !.pc = "idle", !.i = 1,
                                !.ret = [count |-> rfu.removed, err |-> "nil"]]
          /\ UNCHANGED lists
       \/ /\ rfu.i <= Len(rfu.uriIds)
          /\ \/ /\ lists' = [lists EXCEPT ![redisRemoveUriQueue] =
                                LRem(@, 1, rfu.uriIds[rfu.i])]
                /\ rfu' = [rfu EXCEPT !.i = @ + 1,
                                      !.calls = Append(@, Call("LREM", FALSE))]
             \/ /\ UNCHANGED lists
                /\ rfu' = [rfu EXCEPT !.pc = "idle", !.i = 1,
                                      !.calls = Append(@, Call("LREM", TRUE)),
                                      !.ret = [count |-> rfu.removed, err |-> "lrem"]]
    /\ UNCHANGED <<uri_queue, uriFrame>>

\* the frontier asks for the removal of a queued uri
RPushRemUri(id) ==
    /\ Len(RemUri) < MaxRemUri
    /\ lists' = [lists EXCEPT ![redisRemoveUriQueue] = RPush(@, id)]
    /\ UNCHANGED <<uri_queue, rfu, uriFrame>>

\* the frontier queues a uri
UriQueued(id) ==
    /\ id \notin uri_queue
    /\ uri_queue' = uri_queue \cup {id}
    /\ UNCHANGED <<lists, rfu, uriFrame>>

InitUri ==
    /\ InitQueues({"none"})
    /\ AtomicIdle
    /\ TceIdle
    /\ UjeIdle
    /\ UriIdle
    /\ SchedIdle
    /\ RetryIdle /\ CallsIdle /\ DrainIdle /\ PoisonIdle /\ RemovalIdle

\* the steps of this part of the system, with no account kept of the
\* cycles that went before
LRangeStep == RfuLRange /\ UNCHANGED removal
DeleteStep == RfuDelete /\ UNCHANGED removal
LRemStep == RfuLRem /\ UNCHANGED removal
RPushStep == \E id \in UriIds : RPushRemUri(id) /\ UNCHANGED removal
QueuedStep == \E id \in UriIds : UriQueued(id) /\ UNCHANGED removal

NextUri ==
    \/ LRangeStep
    \/ DeleteStep
    \/ LRemStep
    \/ RPushStep
    \/ QueuedStep

SpecUri == InitUri /\ [][NextUri]_vars

\* the calls the invocation has issued that are no read of REMURI
Writes == {i \in 1..Len(rfu.calls) : rfu.calls[i].op # "LRANGE"}

\* C9, in every state: the batch of an invocation holds at most
\* LRangeStop + 1 ids (10,000 in the code), and an invocation whose read
\* returned no id has returned count 0 and no error and has issued no call
\* but the read.
C9_Batch ==
    /\ Len(rfu.uriIds) <= LRangeStop + 1
    /\ (rfu.calls = <<Call("LRANGE", FALSE)>> /\ rfu.uriIds = <<>>)
            => rfu.pc = "idle" /\ rfu.ret = NoRet /\ Writes = {}

\* C9, the read: it leaves the removal queue and uri_queue alone, and reads
\* nothing when the removal queue is empty.
C9_ReadStep ==
    RfuLRange =>
        /\ UNCHANGED <<lists, uri_queue>>
        /\ RemUri = <<>> => rfu'.uriIds = <<>>

\* C9: one RemoveFromUriQueue invocation reads at most LRangeStop + 1 ids
\* however long the removal queue is, and on an empty queue it returns
\* (0, nil) after the read with no delete and no change of the queue.
C9_BoundedRead == []C9_Batch /\ [][C9_ReadStep]_vars

\* the removal queue holds more ids than the full batch that was read
C9_Witness ==
    /\ rfu.pc = "delete"
    /\ Len(rfu.uriIds) = LRangeStop + 1
    /\ Len(RemUri) > Len(rfu.uriIds)
    /\ IsPrefix(rfu.uriIds, RemUri)

\* C10, in every state: an LREM is issued only after a DELETE that returned
\* no error; and when the DELETE returned an error the invocation has
\* returned the Deleted count of its response with that error, and the batch
\* is still at the head of the removal queue.
C10_DeleteFirst ==
    /\ \A i \in 1..Len(rfu.calls) :
            rfu.calls[i].op = "LREM"
                => \E j \in 1..(i - 1) : rfu.calls[j] = Call("DELETE", FALSE)
    /\ (\E i \in 1..Len(rfu.calls) : rfu.calls[i] = Call("DELETE", TRUE))
            => /\ rfu.pc = "idle"
               /\ rfu.ret = [count |-> rfu.removed, err |-> "delete"]
               /\ IsPrefix(rfu.uriIds, RemUri)

\* C10, step by step: only the cleanup takes an id from the removal queue,
\* and the read that follows an invocation ended by a failed delete reads
\* that invocation's batch again.
C10_Step ==
    /\ Len(RemUri') < Len(RemUri) => RfuLRem
    /\ (RfuLRange /\ rfu.ret.err = "delete" /\ rfu'.ret.err = "nil")
            => IsPrefix(rfu.uriIds, rfu'.uriIds)

\* C10: no id leaves the removal queue before the bulk delete of its batch
\* has returned without error; after a failed delete the queue still holds
\* the batch, the call returns the deleted count and the error, and the
\* next invocation reads the same ids.
C10_NoCleanupAfterFailedDelete == []C10_DeleteFirst /\ [][C10_Step]_vars

\* a delete failed after deleting a row, the call returned 1 and the error,
\* and the batch is still in the removal queue
C10_Witness ==
    /\ rfu.pc = "idle"
    /\ rfu.ret = [count |-> 1, err |-> "delete"]
    /\ rfu.calls = <<Call("LRANGE", FALSE), Call("DELETE", TRUE)>>
    /\ Len(rfu.uriIds) = 2
    /\ IsPrefix(rfu.uriIds, RemUri)

\* the LREM commands of the invocation that ran
Cleaned == {i \in 1..Len(rfu.calls) : rfu.calls[i] = Call("LREM", FALSE)}
DeleteReturned ==
    \E i \in 1..Len(rfu.calls) : rfu.calls[i] = Call("DELETE", FALSE)

\* C11 as stated: an invocation whose delete returned without error has,
\* when it returns, removed every id of its batch from the removal queue.
C11_CleanedAfterDelete ==
    (rfu.pc = "idle" /\ DeleteReturned)
        => Cardinality(Cleaned) = Len(rfu.uriIds)

\* C11, in every state: an invocation whose delete and whose cleanup both
\* returned without error has run one LREM for each element of its batch,
\* whatever count the delete returned.
C11_CleanedAtReturn ==
    (rfu.pc = "idle" /\ DeleteReturned /\ rfu.ret.err = "nil")
        => Cardinality(Cleaned) = Len(rfu.uriIds)

\* C11, each LREM that runs: it is for the next element of the batch, that
\* id is in the removal queue, and the queue loses one occurrence of that id
\* and none of any other.
C11_CleanStep ==
    (RfuLRem /\ Len(rfu'.calls) > Len(rfu.calls)
            /\ rfu'.calls[Len(rfu'.calls)] = Call("LREM", FALSE))
        => LET id == rfu.uriIds[rfu.i]
           IN  /\ DeleteReturned
               /\ Count(RemUri, id) >= 1
               /\ \A u \in UriIds :
                    Count(RemUri', u) = Count(RemUri, u) - (IF u = id THEN 1 ELSE 0)

\* C11: when the bulk delete and the cleanup pipeline return without error,
\* one occurrence of every element of the batch has been removed from the
\* removal queue, whether or not its row existed and whatever the count.
C11_BatchRemoved == []C11_CleanedAtReturn /\ [][C11_CleanStep]_vars

\* a batch of two equal ids whose row did not exist: the delete returned 0,
\* both occurrences are gone and a third, appended meanwhile, is left
C11_Witness ==
    /\ rfu.pc = "idle"
    /\ rfu.ret = NoRet
    /\ DeleteReturned
    /\ rfu.uriIds = <<1, 1>>
    /\ Cardinality(Cleaned) = 2
    /\ RemUri = <<1>>

(***************************************************************************)
(* main: one goroutine per worker, each a loop around its operation, all   *)
(* under one errgroup and one cancellable context.                         *)
(***************************************************************************)
\* the errors of the store drivers: io.EOF, and any other
Causes == {<<"io.EOF">>, <<"other">>}

\* fmt.Errorf("msg: %w", err): err stays in the chain
Wrap(msg, err) == <<msg>> \o err

\* errors.Is(err, target): target is in the chain of err
ErrorsIs(err, target) == InList(err, target)

\* database.go:238, fmt.Errorf("%v: %w: failed to recover ceid ...", err,
\* rollbackErr, ceid): the update error is text only, rollbackErr is wrapped
RollbackError(err, rollbackErr) == Wrap("failed to recover ceid", rollbackErr)

\* what the operation of a worker returns, wrapped as its worker wraps it
WorkerReturns(name) ==
    CASE name = "ceid-timeout-queue" ->
            {NilError}
            \cup {Wrap("time out crawl executions",
                       Wrap("get timed out crawl execution", c)) : c \in Causes}
            \cup {Wrap("time out crawl executions", RollbackError(u, r)) :
                    u \in Causes, r \in Causes}
      [] name = "remuri-queue" ->
            {NilError}
            \cup {Wrap("failed to get list of uriIds", c) : c \in Causes}
            \cup {Wrap("removed n of m queued uris", c) : c \in Causes}
            \cup {Wrap("failed to remove some queued uri ids", c) : c \in Causes}
      [] OTHER ->
            {NilError} \cup {Wrap("error moving crawl host groups", c) : c \in Causes}

\* a loop that takes every error as fatal
FatalAny(err) == err # NilError

\* line 181: err != nil && !errors.Is(err, io.EOF)
Fatal(err) == err # NilError /\ ~ErrorsIs(err, "io.EOF")

\* a loop that calls its operation again before the call has returned
CallGuardRunning(l) == loops[l].pc \in {"ready", "running"}

\* lines 178-181: the loop calls t.fn() at the top of each round
CallGuard(l) == loops[l].pc = "ready"

\* a goroutine that returns without stopping the others
ExitKeepsContext(done) == done

\* line 177, defer stop(): ctx is cancelled when the goroutine returns
ExitStops(done) == TRUE

\* line 181: t.fn() is called
LoopCall(l) ==
    /\ CallGuard(l)
    /\ loops' = [loops EXCEPT ![l].pc = "running", ![l].inflight = @ + 1]
    /\ UNCHANGED <<ctxDone, wg, schedFrame>>

\* lines 181-183: t.fn() returns; a fatal error ends the goroutine, and the
\* group keeps the first error returned to it
LoopReturn(l, ret) ==
    /\ loops[l].pc = "running"
    /\ IF Fatal(ret)
       THEN /\ loops' = [loops EXCEPT ![l] = [pc |-> "exited", inflight |-> @.inflight - 1,
                                              ret |-> ret, err |-> Wrap(l, ret)]]
            /\ ctxDone' = ExitStops(ctxDone)
            /\ wg' = [wg EXCEPT !.err = IF @ = NilError THEN Wrap(l, ret) ELSE @]
       ELSE /\ loops' = [loops EXCEPT ![l] = [pc |-> "select", inflight |-> @.inflight - 1,
                                              ret |-> ret, err |-> NilError]]
            /\ UNCHANGED <<ctxDone, wg>>
    /\ UNCHANGED schedFrame

\* a select that takes the timer although ctx is cancelled
LoopTimerAnytime(l) ==
    /\ loops[l].pc = "select"
    /\ loops' = [loops EXCEPT ![l].pc = "ready"]
    /\ UNCHANGED <<ctxDone, wg, schedFrame>>

\* lines 184-188: the select is woken by time.After(t.delay) before ctx is
\* cancelled: the next round
LoopTimer(l) ==
    /\ loops[l].pc = "select"
    /\ ~ctxDone
    /\ loops' = [loops EXCEPT ![l].pc = "ready"]
    /\ UNCHANGED <<ctxDone, wg, schedFrame>>

\* lines 184-186: the select finds ctx cancelled: return nil
LoopDone(l) ==
    /\ loops[l].pc = "select"
    /\ ctxDone
    /\ loops' = [loops EXCEPT ![l].pc = "exited"]
    /\ ctxDone' = ExitStops(ctxDone)
    /\ UNCHANGED <<wg, schedFrame>>

\* lines 151-158: an interrupt or SIGTERM arrives: stop()
Signal ==
    /\ ~ctxDone
    /\ ctxDone' = TRUE
    /\ UNCHANGED <<loops, wg, schedFrame>>

\* a wait that returns when the first goroutine has returned
AnyGoroutineReturned == \E l \in Loops : loops[l].pc = "exited"

\* errgroup: Wait blocks until every goroutine started with Go has returned
GoroutinesReturned == \A l \in Loops : loops[l].pc = "exited"

\* lines 194-196: wg.Wait() returns when every goroutine has returned, with
\* the first error; main panics on an error
Wait ==
    /\ wg.pc = "wait"
    /\ GoroutinesReturned
    /\ wg' = [wg EXCEPT !.pc = IF wg.err = NilError THEN "returned" ELSE "panic"]
    /\ UNCHANGED <<loops, ctxDone, schedFrame>>

InitSched ==
    /\ InitQueues({"none"})
    /\ AtomicIdle
    /\ TceIdle
    /\ UjeIdle
    /\ UriIdle
    /\ SchedIdle
    /\ RetryIdle /\ CallsIdle /\ DrainIdle /\ PoisonIdle /\ RemovalIdle

\* the steps of a goroutine; beside them a count is kept, read by no
\* action, of the invocations the loop began when ctx was already cancelled
LoopStep(l) ==
    \/ /\ LoopCall(l)
       /\ started' = [started EXCEPT ![l] = IF ctxDone THEN @ + 1 ELSE @]
    \/ /\ \E ret \in WorkerReturns(l) : LoopReturn(l, ret)
       /\ UNCHANGED started
    \/ LoopTimer(l) /\ UNCHANGED started
    \/ LoopDone(l) /\ UNCHANGED started

SignalStep == Signal /\ UNCHANGED started
WaitStep == Wait /\ UNCHANGED started

NextSched ==
    \/ \E l \in Loops : LoopStep(l)
    \/ SignalStep
    \/ WaitStep

SpecSched == InitSched /\ [][NextSched]_vars

\* every goroutine that can take a step takes one, every operation returns,
\* and main is scheduled
SpecSchedFair ==
    /\ SpecSched
    /\ \A l \in Loops : WF_vars(LoopStep(l))
    /\ WF_vars(WaitStep)

Exited(l) == loops[l].pc = "exited"
Failed(l) == Exited(l) /\ loops[l].err # NilError

\* C12: when a loop has exited with a fatal error, ctx is cancelled; every
\* other loop eventually exits; and a loop that has exited stays as it is,
\* it is never started again.
C12_FailFast ==
    /\ [](\A l \in Loops : Failed(l) => ctxDone)
    /\ ((\E l \in Loops : Failed(l)) ~> (\A l \in Loops : Exited(l)))
    /\ [][\A l \in Loops : Exited(l) => loops'[l] = loops[l]]_vars

\* one loop has failed, the other loops have exited without an error of
\* their own, and main has the error of the failed loop
C12_Witness ==
    /\ Failed("remuri-queue")
    /\ \A l \in Loops \ {"remuri-queue"} : Exited(l) /\ ~Failed(l)
    /\ wg = [pc |-> "panic", err |-> loops["remuri-queue"].err]

\* C13: when the operation of a loop returns an error that wraps io.EOF the
\* loop goes to its select as after a nil return, without exiting and
\* without cancelling ctx; when it returns any other error the loop exits
\* with that error, ctx is cancelled and the group has an error.
C13_FatalUnlessEOF ==
    [][\A l \in Loops : \A ret \in WorkerReturns(l) :
        LoopReturn(l, ret) =>
            IF ret = NilError \/ ErrorsIs(ret, "io.EOF")
            THEN /\ loops'[l].pc = "select"
                 /\ loops'[l].err = NilError
                 /\ UNCHANGED <<ctxDone, wg>>
            ELSE /\ loops'[l].pc = "exited"
                 /\ loops'[l].err = Wrap(l, ret)
                 /\ ctxDone'
                 /\ wg'.err # NilError]_vars

\* a loop is in its operation again after the previous invocation returned
\* an io.EOF, and nothing has been cancelled
C13_Witness ==
    /\ loops["wait-queue"].pc = "running"
    /\ loops["wait-queue"].ret = Wrap("error moving crawl host groups", <<"io.EOF">>)
    /\ ~ctxDone

TimeoutLoop == "ceid-timeout-queue"

\* C14 as stated: once TimeoutCrawlExecutions has returned the error of a
\* failed rollback push, whatever made the push fail, the timeout loop has
\* exited with that error and ctx is cancelled.
C14_RollbackFailureIsFatal ==
    ErrorsIs(loops[TimeoutLoop].ret, "failed to recover ceid")
        => Failed(TimeoutLoop) /\ ctxDone

\* C15, step by step: a loop leaves its operation only by the operation's
\* return, also when ctx is cancelled meanwhile; and a loop in its select
\* with ctx cancelled does nothing but exit.
C15_Step ==
    \A l \in Loops :
        /\ (loops[l].pc = "running" /\ loops'[l].pc # "running")
                => \E ret \in WorkerReturns(l) : LoopReturn(l, ret)
        /\ (loops[l].pc = "select" /\ ctxDone /\ loops'[l] # loops[l])
                => loops'[l].pc = "exited"

\* C15: once ctx is cancelled, by a signal or by a failed loop, every loop
\* finishes the invocation it is in and then exits; eventually all loops
\* have exited, and wg.Wait() has returned only if they all have.
C15_CancellationLiveness ==
    /\ (ctxDone ~> (\A l \in Loops : Exited(l)))
    /\ [][C15_Step]_vars
    /\ [](wg.pc # "wait" => \A l \in Loops : Exited(l))

\* after a signal, without any loop failing, a loop that was in its
\* operation has returned from it and every loop has exited; main returns
C15_Witness ==
    /\ ctxDone
    /\ \A l \in Loops : Exited(l) /\ ~Failed(l)
    /\ loops["remuri-queue"].ret # NilError
    /\ wg = [pc |-> "returned", err |-> NilError]

\* C16: no operation has more than one invocation in progress, and an
\* invocation starts only when the previous one of the same loop has
\* returned; invocations of different loops are not ordered.
C16_OneInvocationPerOperation ==
    /\ [](\A l \in Loops : loops[l].inflight <= 1)
    /\ [][\A l \in Loops : LoopCall(l) => loops[l].inflight = 0]_vars

\* the three operations are in progress at the same time, one of them in
\* a later invocation than its first
C16_Witness ==
    /\ \A l \in Loops : loops[l].pc = "running" /\ loops[l].inflight = 1
    /\ loops["remuri-queue"].ret # NilError

(***************************************************************************)
(* RethinkDbConnection.execWithRetry, one call of the driver at a time.    *)
(***************************************************************************)
\* the largest maxRetries a connection is configured with
MaxRetries == 2

\* the operations execWrite is called for by the database package
RetryNames == {"update-job-execution-status", "delete-queued-uris"}
\* what c.exec returns: nil, the two errors the switch names, any other
ExecErrors == {"nil", "ErrQueryTimeout", "ErrConnectionClosed", "other"}
Event(ev, err) == [ev |-> ev, err |-> err]

\* a switch that retries after any error
RecoveryRetryAny(err) ==
    CASE err = "ErrQueryTimeout" -> "wait"
      [] err = "ErrConnectionClosed" -> "connect"
      [] OTHER -> "exec"

\* a switch that retries a timed out query at once
RecoveryNoWait(err) ==
    CASE err = "ErrQueryTimeout" -> "exec"
      [] err = "ErrConnectionClosed" -> "connect"
      [] OTHER -> "return"

\* lines 130-143: the switch on the error of the attempt
Recovery(err) ==
    CASE err = "ErrQueryTimeout" -> "wait"
      [] err = "ErrConnectionClosed" -> "connect"
      [] OTHER -> "return"

\* a budget of one attempt more
ExhaustedLate(attempts, maxRetries) == attempts > maxRetries + 1

\* lines 144-146: if attempts > c.maxRetries { break }
Exhausted(attempts, maxRetries) == attempts > maxRetries

\* line 148: fmt.Errorf("failed to %s after %d of %d attempts: %w", name,
\* attempts, c.maxRetries+1, err)
RetryError(name, attempts, maxRetries, err) ==
    [nil |-> FALSE, name |-> name, attempts |-> attempts, of |-> maxRetries + 1,
     err |-> err]

\* lines 119-121: a call of execWithRetry on a connection with some
\* maxRetries: attempts := 0
RetryStart(name, maxRetries) ==
    /\ retry.pc = "idle"
    /\ retry' = [NoRetry EXCEPT !.pc = "exec", !.name = name,
                                !.maxRetries = maxRetries]
    /\ UNCHANGED retryFrame

\* lines 124-143: attempts++, the query is run, and the switch on its error
RetryExec(err) ==
    /\ retry.pc = "exec"
    /\ LET attempts == retry.attempts + 1
           log == Append(retry.log, Event("exec", err))
           next == IF err = "nil" THEN "return" ELSE Recovery(err)
       IN  retry' = [retry EXCEPT
                       !.attempts = attempts, !.err = err, !.log = log,
                       !.pc = IF next = "return" THEN "idle" ELSE next,
                       !.ret = IF next # "return" THEN @
                               ELSE IF err = "nil" THEN NoRetryResult
                               ELSE RetryError(retry.name, attempts,
                                               retry.maxRetries, err)]
    /\ UNCHANGED retryFrame

\* lines 131-140 and 144-148: c.wait() or c.Connect(), whose error is only
\* logged; then the test of the budget
RetryRecover(ok) ==
    /\ retry.pc \in {"wait", "connect"}
    /\ LET log == Append(retry.log, Event(retry.pc, IF ok THEN "nil" ELSE "failed"))
       IN  retry' = IF Exhausted(retry.attempts, retry.maxRetries)
                    THEN [retry EXCEPT
                            !.log = log, !.pc = "idle",
                            !.ret = RetryError(retry.name, retry.attempts,
                                               retry.maxRetries, retry.err)]
                    ELSE [retry EXCEPT !.log = log, !.pc = "exec"]
    /\ UNCHANGED retryFrame

InitRetry ==
    /\ InitQueues({"none"})
    /\ AtomicIdle
    /\ TceIdle
    /\ UjeIdle
    /\ UriIdle
    /\ SchedIdle
    /\ RetryIdle /\ CallsIdle /\ DrainIdle /\ PoisonIdle /\ RemovalIdle

NextRetry ==
    \/ \E name \in RetryNames, maxRetries \in 0..MaxRetries :
            RetryStart(name, maxRetries)
    \/ \E err \in ExecErrors : RetryExec(err)
    \/ \E ok \in BOOLEAN : RetryRecover(ok)

SpecRetry == InitRetry /\ [][NextRetry]_vars

\* the driver answers every call
SpecRetryFair ==
    /\ SpecRetry
    /\ WF_vars(\E err \in ExecErrors : RetryExec(err))
    /\ WF_vars(\E ok \in BOOLEAN : RetryRecover(ok))

\* the attempts of the call, as positions in the record of its calls
Execs == {i \in 1..Len(retry.log) : retry.log[i].ev = "exec"}
Retryable == {"ErrQueryTimeout", "ErrConnectionClosed"}
Returned == retry.pc = "idle" /\ retry.log # <<>>

\* C17, in every state: the query has been run at most maxRetries + 1 times;
\* and a call whose attempts all failed with a query timeout or a closed
\* connection has returned an error with the name of the operation, the
\* number of attempts made, and the error of the last attempt wrapped.
C17_Bounded ==
    /\ Cardinality(Execs) = retry.attempts
    /\ retry.attempts <= retry.maxRetries + 1
    /\ (Returned /\ \A i \in Execs : retry.log[i].err \in Retryable)
        => /\ retry.attempts = retry.maxRetries + 1
           /\ retry.ret = [nil |-> FALSE, name |-> retry.name,
                           attempts |-> Cardinality(Execs),
                           of |-> retry.maxRetries + 1,
                           err |-> retry.log[Len(retry.log) - 1].err]

\* C17: execWithRetry runs the query at most maxRetries + 1 times whatever
\* timeouts and closed connections it meets, then returns; when every
\* attempt failed the error names the operation and the attempts and wraps
\* the last error.
C17_BoundedRetry == []C17_Bounded /\ (retry.pc # "idle" ~> retry.pc = "idle")

\* three attempts on a connection with maxRetries = 2, a timeout, a closed
\* connection and a timeout: the call has returned the last of them
C17_Witness ==
    /\ Returned
    /\ retry.maxRetries = 2
    /\ retry.attempts = 3
    /\ retry.log[1].err = "ErrQueryTimeout"
    /\ retry.log[3].err = "ErrConnectionClosed"
    /\ retry.ret.err = "ErrQueryTimeout"
    /\ retry.ret.attempts = 3

C20_ReturnsCountSoFar ==
    (uje.pc = "idle" /\ uje.ret.err = "update") => uje.ret.count = uje.count

(***************************************************************************)
(* The same move called again.  The queues start as in the move            *)
(* specification; every call of moveChg is recorded with the queues it     *)
(* met, beside the call before it when that was a call of the same move.   *)
(* Nothing but the three moves writes the queues here, so between two      *)
(* calls of one move that follow each other its two queues do not change.  *)
(***************************************************************************)
MoveCalled(p) ==
    /\ moveChg(p.op, p.from, p.to)
    /\ calls' = [prev |-> IF calls.cur.op = p.op THEN calls.cur ELSE NoCall,
                 cur |-> [op |-> p.op, now |-> clock, from |-> zsets[p.from],
                          to |-> lists[p.to], moved |-> last'.moved,
                          err |-> last'.err]]
    /\ UNCHANGED <<clock, callFrame>>

\* the busy and timeout queues of the crawl host groups start empty
InitRerun ==
    /\ InitQueues({"none", "wait", "ready"})
    /\ AtomicIdle /\ TceIdle /\ UjeIdle /\ UriIdle /\ SchedIdle /\ RetryIdle
    /\ CallsIdle /\ DrainIdle /\ PoisonIdle /\ RemovalIdle

NextRerun ==
    \/ \E p \in MovePairs : MoveCalled(p)
    \/ Tick

SpecRerun == InitRerun /\ [][NextRerun]_vars

\* the queues of the latest call, as they are now
CurFrom == zsets[(CHOOSE p \in MovePairs : p.op = calls.cur.op).from]
CurTo == lists[(CHOOSE p \in MovePairs : p.op = calls.cur.op).to]

\* the latest two calls were calls of the same move and returned no error
CalledTwice ==
    /\ calls.cur.op # "none"
    /\ calls.prev.op = calls.cur.op
    /\ ~calls.prev.err /\ ~calls.cur.err

(***************************************************************************)
(* C21.  Move idempotence: a second call of a move with the same now,      *)
(* right after the first and with no change in between, returns 0 and      *)
(* leaves fromQueue and toQueue as the first call left them.               *)
(***************************************************************************)
C21_MoveIdempotent ==
    (CalledTwice /\ calls.prev.now = calls.cur.now) =>
        /\ calls.cur.moved = 0
        /\ CurFrom = calls.cur.from
        /\ CurTo = calls.cur.to

\* the first call moved two entries, the second call at the same now none
C21_Witness ==
    /\ CalledTwice /\ calls.prev.now = calls.cur.now
    /\ calls.prev.moved = 2
    /\ calls.cur.moved = 0
    /\ Len(CurTo) = Len(calls.prev.to) + 2

(***************************************************************************)
(* C22.  The count a move returns is the number of entries it removed from *)
(* fromQueue and the number it appended to toQueue, and the entries        *)
(* appended are the entries removed, each once; when no entry is due the   *)
(* move returns 0 and changes neither queue.                               *)
(***************************************************************************)
Appended(toQueue) ==
    SubSeq(lists'[toQueue], Len(lists[toQueue]) + 1, Len(lists'[toQueue]))

MoveCount(fromQueue, toQueue) ==
    LET removed == DOMAIN zsets[fromQueue] \ DOMAIN zsets'[fromQueue]
        due == {e \in DOMAIN zsets[fromQueue] : zsets[fromQueue][e] <= clock}
    IN  /\ DOMAIN zsets'[fromQueue] \subseteq DOMAIN zsets[fromQueue]
        /\ IsPrefix(lists[toQueue], lists'[toQueue])
        /\ last'.moved = Cardinality(removed)
        /\ last'.moved = Len(Appended(toQueue))
        /\ Range(Appended(toQueue)) = removed
        /\ due = {} => /\ last'.moved = 0
                       /\ zsets'[fromQueue] = zsets[fromQueue]
                       /\ lists'[toQueue] = lists[toQueue]

C22_CountIsRemovedIsAppended ==
    [][\A p \in MovePairs :
          (moveChg(p.op, p.from, p.to) /\ ~last'.err) => MoveCount(p.from, p.to)]_vars

\* two ids have been moved to the timeout queue, and the move that then
\* found nothing due has returned 0
C22_Witness ==
    /\ last = [op |-> "MoveRunningToTimeout", moved |-> 0, err |-> FALSE]
    /\ Len(lists[redisCrawlExecutionTimeoutQueue]) = 2
    /\ Cardinality(DOMAIN zsets[redisCrawlExecutionRunningQueue]) = 1

(***************************************************************************)
(* TimeoutCrawlExecutions alone: nothing is added to the timeout queue     *)
(* while it runs.  Every store call of an invocation in progress returns,  *)
(* with or without an error.                                               *)
(***************************************************************************)
\* the two CEID queues and the table executions before the first call
InitCeids(places, docs) ==
    /\ clock = 0
    /\ last = NoMove
    /\ tce = NoTce
    /\ executions \in [Ceids -> docs]
    /\ \E place \in [Ceids -> places] :
        \E timeout \in Orderings({c \in Ceids : place[c] = "timeout"}) :
            /\ zsets = [z \in ZKeys |->
                  IF z = redisCrawlExecutionRunningQueue
                  THEN ZSetOf(place, [c \in Ceids |-> (c + 1) % 3], "running")
                  ELSE EmptyZSet]
            /\ lists = [l \in LKeys |->
                  IF l = redisCrawlExecutionTimeoutQueue THEN timeout ELSE <<>>]

OthersIdle ==
    AtomicIdle /\ UjeIdle /\ UriIdle /\ SchedIdle /\ RetryIdle /\ CallsIdle

InitAlone ==
    /\ InitCeids({"none", "timeout"}, {NoDoc, RunningDoc, EndedDoc})
    /\ OthersIdle /\ DrainIdle /\ PoisonIdle /\ RemovalIdle

NextAlone ==
    \/ StartStep
    \/ LPopStep
    \/ UpdateStep
    \/ RollbackStep
    \/ FinishStep

SpecAloneFair ==
    /\ InitAlone /\ [][NextAlone]_vars
    /\ WF_vars(LPopStep) /\ WF_vars(UpdateStep) /\ WF_vars(RollbackStep)

(***************************************************************************)
(* C23.  With no producer beside it, an invocation of                      *)
(* TimeoutCrawlExecutions returns; when no update and no call of the queue *)
(* store failed in it, it returns a nil error and the timeout queue is     *)
(* empty, and stays so; it leaves the queue non-empty only when an update  *)
(* or a call of the queue store failed in it.                              *)
(***************************************************************************)
\* the invocation that ended last met no failed update and no failed pop
CycleClean == tce.failed = 0 /\ tce.ret.err # "lpop"

C23_Returns ==
    (tce.pc # "idle" /\ tce'.pc = "idle") =>
        /\ CycleClean' => (TimeoutQueue' = <<>> /\ tce'.ret.err = "nil")
        /\ TimeoutQueue' # <<>> => ~CycleClean'

C23_StaysEmpty ==
    (tce.pc = "idle" /\ tce.popped # <<>> /\ CycleClean) => TimeoutQueue = <<>>

C23_DrainsOnSuccess ==
    /\ (tce.pc # "idle") ~> (tce.pc = "idle")
    /\ [][C23_Returns]_vars
    /\ []C23_StaysEmpty

\* an invocation has popped and updated three ids and returned nil
C23_Witness ==
    /\ tce.pc = "idle" /\ Len(tce.popped) = 3
    /\ tce.failed = 0 /\ tce.ret = [count |-> 2, err |-> "nil"]
    /\ TimeoutQueue = <<>>

(***************************************************************************)
(* RemoveFromUriQueue called again after a failed delete.  Beside the      *)
(* calls, an account is kept of the two stores as a cycle met them at its  *)
(* read, and of how the cycle and the cycle after it went on: "first" (a   *)
(* cycle has read its batch), "failed" (its delete returned an error),     *)
(* "again" (the next cycle has read its batch), "retried" (that cycle has  *)
(* returned without error), "single" (the first cycle has).  A write of    *)
(* the frontier ends the account.                                          *)
(***************************************************************************)
\* lines 133-140: the LREM commands of the pipeline, all of them run
RECURSIVE deleteFromRemoveQueue(_, _, _)
deleteFromRemoveQueue(l, uriIds, i) ==
    IF i > Len(uriIds) THEN l
    ELSE deleteFromRemoveQueue(LRem(l, 1, uriIds[i]), uriIds, i + 1)

\* lines 104-121: what one call in which no store call fails makes of the
\* two stores
RemoveFromUriQueue(rows, remUri) ==
    LET uriIds == LRange(remUri, 0, LRangeStop)
    IN  [uri_queue |-> rows \ Range(uriIds),
         remUri |-> deleteFromRemoveQueue(remUri, uriIds, 1)]

Following == removal.stage \in {"first", "again"}

TrackLRange ==
    /\ RfuLRange
    /\ removal' =
          IF removal.stage = "failed"
          THEN IF rfu'.pc = "idle" THEN removal
               ELSE [removal EXCEPT !.stage = "again"]
          ELSE IF rfu'.pc = "idle" THEN NoRemoval
               ELSE [stage |-> "first", uri_queue |-> uri_queue,
                     remUri |-> RemUri]

TrackDelete ==
    /\ RfuDelete
    /\ removal' = IF Following /\ rfu'.pc = "idle"
                  THEN [removal EXCEPT !.stage = "failed"] ELSE removal

TrackLRem ==
    /\ RfuLRem
    /\ removal' =
          IF Following /\ rfu'.pc = "idle"
          THEN IF rfu'.ret.err # "nil" THEN NoRemoval
               ELSE [removal EXCEPT
                       !.stage = IF @ = "again" THEN "retried" ELSE "single"]
          ELSE removal

TrackRPush == \E id \in UriIds : RPushRemUri(id) /\ removal' = NoRemoval
TrackQueued == \E id \in UriIds : UriQueued(id) /\ removal' = NoRemoval

NextUriRetry ==
    \/ TrackLRange
    \/ TrackDelete
    \/ TrackLRem
    \/ TrackRPush
    \/ TrackQueued

SpecUriRetry == InitUri /\ [][NextUriRetry]_vars

(***************************************************************************)
(* C24.  A cycle whose bulk delete failed, followed with no write of a     *)
(* producer in between by a cycle that succeeds, leaves the table          *)
(* uri_queue and the removal queue as one successful cycle run on the      *)
(* stores the failed cycle met leaves them (and one successful cycle does  *)
(* leave them so).                                                         *)
(***************************************************************************)
C24_RetryIsIdempotent ==
    removal.stage \in {"retried", "single"} =>
        [uri_queue |-> uri_queue, remUri |-> RemUri] =
            RemoveFromUriQueue(removal.uri_queue, removal.remUri)

\* the failed cycle met two rows and three ids, one of them twice in its
\* batch; after the retry one row and one id are left
C24_Witness ==
    /\ removal.stage = "retried"
    /\ removal.uri_queue = {1, 2}
    /\ removal.remUri = <<1, 1, 2>>
    /\ uri_queue = {2} /\ RemUri = <<2>>

(***************************************************************************)
(* C25.  Frame of the three moves: MoveWaitToReady changes only the wait   *)
(* and ready queues, MoveBusyToTimeout only the busy and CHG timeout       *)
(* queues, MoveRunningToTimeout only ceid_running and ceid_timeout; none   *)
(* changes another key of the queue store or a durable record.  What a     *)
(* move makes of the store is a function of its own two queues and the     *)
(* time, so two moves on different pairs leave the same store in either    *)
(* order.                                                                  *)
(***************************************************************************)
OnlyChanges(fromQueue, toQueue) ==
    /\ \A z \in ZKeys \ {fromQueue} : zsets'[z] = zsets[z]
    /\ \A l \in LKeys \ {toQueue} : lists'[l] = lists[l]
    /\ UNCHANGED <<hashes, executions, job_executions, uri_queue>>

\* the queue store after a move that returned without error
Moved(store, p) ==
    LET r == chg_delayed_queue(store.zsets[p.from], store.lists[p.to], clock)
    IN  [zsets |-> [store.zsets EXCEPT ![p.from] = r.from],
         lists |-> [store.lists EXCEPT ![p.to] = r.to]]

Store == [zsets |-> zsets, lists |-> lists]

IsMoved(p) == ~last'.err => Store' = Moved(Store, p)

C25_Step ==
    /\ MoveWaitToReady =>
          /\ OnlyChanges(redisWaitQueue, redisReadyQueue)
          /\ \A p \in MovePairs : p.op = "MoveWaitToReady" => IsMoved(p)
    /\ MoveBusyToTimeout =>
          /\ OnlyChanges(redisBusyQueue, redisTimeoutQueue)
          /\ \A p \in MovePairs : p.op = "MoveBusyToTimeout" => IsMoved(p)
    /\ MoveRunningToTimeout =>
          /\ OnlyChanges(redisCrawlExecutionRunningQueue,
                         redisCrawlExecutionTimeoutQueue)
          /\ \A p \in MovePairs : p.op = "MoveRunningToTimeout" => IsMoved(p)

C25_Commute ==
    \A p, q \in MovePairs :
        p # q => Moved(Moved(Store, p), q) = Moved(Moved(Store, q), p)

C25_MoveFrame == [][C25_Step]_vars /\ []C25_Commute

\* the move of the running queue has moved an id and, after it, the
\* wait-to-ready move an entry, with the busy queue empty
C25_Witness ==
    /\ last = [op |-> "MoveWaitToReady", moved |-> 1, err |-> FALSE]
    /\ lists[redisTimeoutQueue] # <<>>
    /\ lists[redisCrawlExecutionTimeoutQueue] # <<>>
    /\ zsets[redisBusyQueue] = EmptyZSet

(***************************************************************************)
(* The drain of the timeout queue with an account of the ids: drain.todo   *)
(* holds every id that has been in the timeout queue and whose update has  *)
(* not yet returned without error; drain.rollbackFailed tells whether a    *)
(* rollback push has failed.                                               *)
(***************************************************************************)
TrackUpdate ==
    /\ TceUpdate
    /\ drain' = IF tce'.pc = "lpop"
                THEN [drain EXCEPT !.todo = @ \ {tce.ceid}] ELSE drain

TrackRollback ==
    /\ TceRollback
    /\ drain' = IF tce'.pushed THEN drain
                ELSE [drain EXCEPT !.rollbackFailed = TRUE]

TrackMove ==
    /\ TceMoveRunningToTimeout
    /\ drain' = [drain EXCEPT !.todo = @ \cup Range(TimeoutQueue')]

InitDrain ==
    /\ InitCeids({"none", "running", "timeout"}, {NoDoc, RunningDoc})
    /\ OthersIdle /\ PoisonIdle /\ RemovalIdle
    /\ drain = [todo |-> Range(TimeoutQueue), rollbackFailed |-> FALSE]

NextDrain ==
    \/ StartStep
    \/ LPopStep
    \/ TrackUpdate
    \/ TrackRollback
    \/ FinishStep
    \/ TrackMove
    \/ TickStep

SpecDrain == InitDrain /\ [][NextDrain]_vars

(***************************************************************************)
(* C26.  At-least-once draining without loss: as long as no rollback push  *)
(* has failed, whenever no invocation of TimeoutCrawlExecutions is in      *)
(* progress every id that has been in the timeout queue is in the queue    *)
(* or its update has returned without error; and the queue never holds an  *)
(* id twice.                                                               *)
(***************************************************************************)
C26_NoLoss ==
    /\ (tce.pc = "idle" /\ ~drain.rollbackFailed) =>
            drain.todo \subseteq Range(TimeoutQueue)
    /\ \A c \in Ceids : Count(TimeoutQueue, c) <= 1

\* two cycles and a move between them: the first cycle pushed an id back,
\* the second updated another id and pushed the same id back again
C26_Witness ==
    /\ tce.pc = "idle" /\ ~drain.rollbackFailed
    /\ tce.prevFailed # 0 /\ tce.failed = tce.prevFailed /\ tce.pushed
    /\ Len(tce.popped) = 2
    /\ drain.todo = {tce.failed}
    /\ zsets[redisCrawlExecutionRunningQueue] = EmptyZSet

(***************************************************************************)
(* The two loops of the CEID queues kept running: the drain loop calls     *)
(* TimeoutCrawlExecutions again and again, the move loop calls             *)
(* MoveRunningToTimeout again and again, and every store call of an        *)
(* invocation in progress returns.  The ids start in ceid_running or in no *)
(* queue, each with a record that has an endTime or has none; no           *)
(* execution ends meanwhile.                                               *)
(***************************************************************************)
InitConverge ==
    /\ InitCeids({"none", "running"}, {RunningDoc, EndedDoc})
    /\ OthersIdle /\ DrainIdle /\ PoisonIdle /\ RemovalIdle

NextConverge ==
    \/ StartStep
    \/ LPopStep
    \/ TrackUpdate
    \/ TrackRollback
    \/ TrackMove
    \/ TickStep

SpecDrainFair ==
    /\ InitConverge /\ [][NextConverge]_vars
    /\ WF_vars(StartStep) /\ WF_vars(LPopStep) /\ WF_vars(TrackUpdate)
    /\ WF_vars(TrackRollback) /\ WF_vars(TrackMove)

\* a call of a store returns an error
CallFails ==
    \/ tce.pc = "lpop" /\ tce'.pc = "idle" /\ tce'.ret.err = "lpop"
    \/ tce.pc = "update" /\ tce'.pc = "rpush"
    \/ tce.pc = "rpush" /\ tce'.pc = "idle" /\ tce'.ret.err = "rollback"

Due(c) ==
    /\ c \in DOMAIN zsets[redisCrawlExecutionRunningQueue]
    /\ zsets[redisCrawlExecutionRunningQueue][c] <= clock

\* the id is in neither queue, and its record, if it has no endTime, has
\* desiredState ABORTED_TIMEOUT
Converged(c) ==
    /\ c \notin DOMAIN zsets[redisCrawlExecutionRunningQueue]
    /\ ~InList(TimeoutQueue, c)
    /\ (executions[c].exists /\ ~executions[c].endTime) =>
            executions[c].desiredState = "ABORTED_TIMEOUT"

(***************************************************************************)
(* C27 as stated.  Convergence: with both loops kept running, if the store *)
(* calls fail only finitely often, every id that is due in the running     *)
(* queue eventually is in neither queue, with desiredState                 *)
(* ABORTED_TIMEOUT on its record if that had no endTime.                   *)
(***************************************************************************)
C27_Converges ==
    (<>[][~CallFails]_vars) => \A c \in Ceids : Due(c) ~> Converged(c)

(***************************************************************************)
(* C27, amended.  The same, as long as no rollback push has failed: an id  *)
(* whose update failed and whose rollback push failed as well is in        *)
(* neither queue and is never updated.                                     *)
(***************************************************************************)
C27_ConvergesUnlessLost ==
    (<>[][~CallFails]_vars) =>
        \A c \in Ceids : Due(c) ~> (Converged(c) \/ drain.rollbackFailed)

\* two ids have gone from the running queue through the timeout queue and
\* have been updated, the second one after a failed update and a rollback
C27_Witness ==
    /\ tce.pc = "idle" /\ ~drain.rollbackFailed
    /\ tce.prevFailed # 0 /\ InList(tce.popped, tce.prevFailed)
    /\ tce.failed = 0 /\ TimeoutQueue = <<>>
    /\ \E c, d \in Ceids :
        /\ c # d
        /\ Converged(c) /\ executions[c].desiredState = "ABORTED_TIMEOUT"
        /\ Converged(d) /\ executions[d].desiredState = "ABORTED_TIMEOUT"

(***************************************************************************)
(* A poisoned record: the update of the id poison returns an error at      *)
(* every attempt, every other store call returns without error.  The       *)
(* drain loop keeps calling TimeoutCrawlExecutions and every store call of *)
(* an invocation in progress returns.                                      *)
(***************************************************************************)
PoisonLPop == LPopStep /\ tce'.ret.err # "lpop"
PoisonUpdate == UpdateStep /\ ((tce'.pc = "rpush") <=> (tce.ceid = poison))
PoisonRollback == RollbackStep /\ tce'.pushed

InitPoison ==
    /\ InitCeids({"none", "running", "timeout"}, {RunningDoc, EndedDoc})
    /\ OthersIdle /\ DrainIdle /\ RemovalIdle
    /\ poison \in Ceids

NextPoison ==
    \/ StartStep
    \/ PoisonLPop
    \/ PoisonUpdate
    \/ PoisonRollback
    \/ MoveStep
    \/ TickStep

SpecPoisonFair ==
    /\ InitPoison /\ [][NextPoison]_vars
    /\ WF_vars(StartStep) /\ WF_vars(PoisonLPop) /\ WF_vars(PoisonUpdate)
    /\ WF_vars(PoisonRollback)

\* the update of c has just returned without error
Updated(c) == tce.pc = "lpop" /\ tce.upd.ceid = c

(***************************************************************************)
(* C28.  A poisoned record does not block the queue: every other id that   *)
(* is in the timeout queue is eventually popped and updated, and a cycle   *)
(* pops the poisoned id at most once, its failed update being the last     *)
(* update of the cycle.                                                    *)
(***************************************************************************)
C28_OncePerCycle ==
    /\ Count(tce.popped, poison) <= 1
    /\ tce.failed # 0 =>
          /\ tce.failed = poison
          /\ tce.pc \in {"rpush", "idle"}
          /\ tce.popped[Len(tce.popped)] = poison

C28_PoisonDoesNotBlock ==
    /\ \A c \in Ceids : (c # poison /\ InList(TimeoutQueue, c)) ~> Updated(c)
    /\ []C28_OncePerCycle

\* the cycle before this one stopped at the poisoned id, which is in the
\* queue again; this cycle has updated an id that was queued behind it
C28_Witness ==
    /\ tce.prevFailed = poison
    /\ InList(TimeoutQueue, poison)
    /\ \E c \in Ceids : c # poison /\ Updated(c) /\ tce.popped = <<c>>

(***************************************************************************)
(* C29.  A move appends the entries it takes to the tail of toQueue, after *)
(* the entries toQueue held, which keep their positions, and in ascending  *)
(* order of the scores the entries had in fromQueue (entries of equal      *)
(* score in the order of the members).                                     *)
(***************************************************************************)
MoveOrder(fromQueue, toQueue) ==
    LET app == Appended(toQueue)
    IN  /\ IsPrefix(lists[toQueue], lists'[toQueue])
        /\ \A i, j \in 1..Len(app) :
              i < j => /\ zsets[fromQueue][app[i]] <= zsets[fromQueue][app[j]]
                       /\ ZBefore(zsets[fromQueue], app[i], app[j])

C29_AppendedInScoreOrder ==
    [][\A p \in MovePairs :
          (moveChg(p.op, p.from, p.to) /\ ~last'.err) => MoveOrder(p.from, p.to)]_vars

\* one move has taken both entries of the wait queue: the entry with the
\* lower score, which has the greater key, is first in the ready queue
C29_Witness ==
    /\ last = [op |-> "MoveWaitToReady", moved |-> 2, err |-> FALSE]
    /\ lists[redisReadyQueue] = <<2, 1>>
    /\ clock = 1

(***************************************************************************)
(* C30.  Running the move again with a later now: for two calls of one     *)
(* move that follow each other with no change in between, at now1 and at   *)
(* now2 >= now1, the two queues are after the second call as one call at   *)
(* now2 on the queues the first call met leaves them, the second call has  *)
(* moved exactly the entries with now1 < score <= now2, and the two counts *)
(* add up to the count of that one call.                                   *)
(***************************************************************************)
C30_LaterNowIsSafe ==
    CalledTwice =>
        LET single == chg_delayed_queue(calls.prev.from, calls.prev.to,
                                        calls.cur.now)
            newlyDue == {e \in DOMAIN calls.prev.from :
                            /\ calls.prev.from[e] > calls.prev.now
                            /\ calls.prev.from[e] <= calls.cur.now}
        IN  /\ calls.prev.now <= calls.cur.now
            /\ CurFrom = single.from
            /\ CurTo = single.to
            /\ DOMAIN calls.cur.from \ DOMAIN CurFrom = newlyDue
            /\ Range(SubSeq(CurTo, Len(calls.cur.to) + 1, Len(CurTo))) = newlyDue
            /\ calls.cur.moved = Cardinality(newlyDue)
            /\ calls.prev.moved + calls.cur.moved = single.moved

\* the first call moved one id at now = 0, the second one more at now = 1
C30_Witness ==
    /\ CalledTwice
    /\ calls.prev.now = 0 /\ calls.cur.now = 1
    /\ calls.prev.moved = 1 /\ calls.cur.moved = 1
    /\ Len(CurTo) = 2

(***************************************************************************)
(* C31.  A conditional-update rejection is not an error.  When the update  *)
(* of a popped id meets a document that has an endTime and returns without *)
(* error, it changes no document and adds nothing to the count, the id is  *)
(* not pushed back to the timeout queue, no failure is recorded and the    *)
(* cycle does not return: its next step is the pop of the next id, the     *)
(* head of the queue.                                                      *)
(***************************************************************************)
\* the update of the id in hand has returned without error on a document
\* that had an endTime
Rejected ==
    /\ tce.pc = "lpop"
    /\ tce.upd.ceid # 0
    /\ tce.upd.before.exists /\ tce.upd.before.endTime

C31_RejectedState ==
    Rejected =>
        /\ tce.upd.after = tce.upd.before
        /\ executions[tce.upd.ceid] = tce.upd.before
        /\ ~InList(TimeoutQueue, tce.upd.ceid)
        /\ tce.failed = 0 /\ ~tce.pushed
        /\ tce.ret = NoRet

C31_RejectStep ==
    /\ (/\ tce.pc = "update" /\ tce'.pc = "lpop"
        /\ executions[tce.ceid].exists /\ executions[tce.ceid].endTime) =>
          /\ executions' = executions
          /\ tce'.count = tce.count
          /\ TimeoutQueue' = TimeoutQueue
    /\ (Rejected /\ tce' # tce /\ TimeoutQueue # <<>> /\ tce'.ret.err # "lpop") =>
          /\ tce'.pc = "update"
          /\ tce'.ceid = Head(TimeoutQueue)
          /\ TimeoutQueue' = Tail(TimeoutQueue)

C31_RejectionIsNotAnError == []C31_RejectedState /\ [][C31_RejectStep]_vars

\* the cycle has popped a second id after the update of the first, whose
\* document has an endTime, changed nothing; the first id is not in the queue
C31_Witness ==
    /\ tce.pc = "update" /\ Len(tce.popped) = 2
    /\ tce.count = 0
    /\ executions[tce.popped[1]] = EndedDoc
    /\ ~InList(TimeoutQueue, tce.popped[1])

(***************************************************************************)
(* RemoveFromUriQueue beside a producer that appends to REMURI while a     *)
(* cycle runs.  Beside the calls, an account is kept of the removal queue  *)
(* as the cycle met it at its read and of the ids appended since: "cycle"  *)
(* (a cycle has read its batch), "ended" (it has returned).  A write of    *)
(* the producer after the return ends the account.                         *)
(***************************************************************************)
RaceLRange ==
    /\ RfuLRange
    /\ removal' = IF rfu'.pc = "idle" THEN NoRemoval
                  ELSE [stage |-> "cycle", uri_queue |-> uri_queue,
                        remUri |-> RemUri, added |-> <<>>]

RaceDelete ==
    /\ RfuDelete
    /\ removal' = IF rfu'.pc = "idle"
                  THEN [removal EXCEPT !.stage = "ended"] ELSE removal

RaceLRem ==
    /\ RfuLRem
    /\ removal' = IF rfu'.pc = "idle"
                  THEN [removal EXCEPT !.stage = "ended"] ELSE removal

RaceRPush ==
    \E id \in UriIds :
        /\ RPushRemUri(id)
        /\ removal' = IF removal.stage = "cycle"
                      THEN [removal EXCEPT !.added = Append(@, id)]
                      ELSE NoRemoval

RaceQueued == \E id \in UriIds : UriQueued(id) /\ UNCHANGED removal

NextUriRace ==
    \/ RaceLRange
    \/ RaceDelete
    \/ RaceLRem
    \/ RaceRPush
    \/ RaceQueued

SpecUriRace == InitUri /\ [][NextUriRace]_vars

\* a is the tail end of b
IsSuffix(a, b) ==
    Len(a) <= Len(b) /\ SubSeq(b, Len(b) - Len(a) + 1, Len(b)) = a
\* a cycle that read a batch is running or has returned
InCycle == removal.stage \in {"cycle", "ended"}
\* the occurrences of id the removal queue has lost since the read
Removed(id) ==
    Count(removal.remUri, id) + Count(removal.added, id) - Count(RemUri, id)

(***************************************************************************)
(* C32 as stated.  When the cycle ends, the ids a producer appended        *)
(* since the read are still in the removal queue, and for every id the     *)
(* cycle has removed exactly as many occurrences as its batch holds.       *)
(***************************************************************************)
C32_RemovesTheBatchExactly ==
    removal.stage = "ended" =>
        /\ IsSuffix(removal.added, RemUri)
        /\ \A id \in UriIds : Removed(id) = Count(rfu.uriIds, id)

(***************************************************************************)
(* C32, amended.  In every state of a cycle and at its end, the removal    *)
(* queue is the queue the read met without the elements of the batch that  *)
(* the LREM commands which ran were for, followed by the ids appended      *)
(* since the read: no appended id is dropped, and for every id the cycle   *)
(* has removed at most as many occurrences as its batch holds; exactly as  *)
(* many when the delete and the cleanup pipeline returned without error,   *)
(* and none when the delete returned an error.                             *)
(***************************************************************************)
C32_ConcurrentAppendsKept ==
    InCycle =>
        LET n == Cardinality(Cleaned)
            done == SubSeq(rfu.uriIds, 1, n)
        IN  /\ IsPrefix(rfu.uriIds, removal.remUri)
            /\ RemUri = SubSeq(removal.remUri, n + 1, Len(removal.remUri))
                            \o removal.added
            /\ \A id \in UriIds :
                  /\ Removed(id) = Count(done, id)
                  /\ Removed(id) <= Count(rfu.uriIds, id)
            /\ (removal.stage = "ended" /\ rfu.ret.err = "nil")
                  => \A id \in UriIds : Removed(id) = Count(rfu.uriIds, id)
            /\ (removal.stage = "ended" /\ rfu.ret.err = "delete")
                  => \A id \in UriIds : Removed(id) = 0

\* the batch was <<1, 1>>, the whole queue; a producer appended a third 1
\* while the cycle ran, the cleanup removed two occurrences of 1 and the
\* appended one is left
C32_Witness ==
    /\ removal.stage = "ended" /\ rfu.ret.err = "nil"
    /\ rfu.uriIds = <<1, 1>>
    /\ removal.remUri = <<1, 1>>
    /\ removal.added = <<1>>
    /\ RemUri = <<1>>

(***************************************************************************)
(* C33.  UpdateJobExecutions never writes to the queue store: every step   *)
(* of a cycle (the KEYS, an EXISTS, an HGETALL, an update of the table)    *)
(* leaves every JEID hash, every list and every sorted set as it was; the  *)
(* hash of a job execution whose record is terminal is left so as well.    *)
(***************************************************************************)
\* a step of the cycle: the call has moved on
UjeStepped == uje' # uje

C33_CycleStep ==
    UjeStepped =>
        /\ hashes' = hashes
        /\ lists' = lists
        /\ zsets' = zsets
        /\ \A j \in Jeids :
              job_executions[j].state \in TerminalStates
                  => hashes'[j] = hashes[j]

C33_CycleLeavesQueueStore == [][C33_CycleStep]_vars

\* a cycle has ended without error after it scanned both hashes and met
\* the terminal record of job execution 1, which it left alone: both
\* hashes are still in the store
C33_Witness ==
    /\ CycleSucceeded
    /\ Len(uje.jess) = 2 /\ uje.count = 0
    /\ job_executions[1].state = "FINISHED"
    /\ \A j \in Jeids : hashes[j] # NoHash

(***************************************************************************)
(* C34.  After ctx has been cancelled, each loop begins at most one        *)
(* further invocation of its operation before it exits: the count of the   *)
(* invocations a loop began with ctx cancelled never exceeds one, a loop   *)
(* about to call its operation with ctx cancelled has begun none since the *)
(* cancel, and a loop that has begun one is in it, at the select that      *)
(* follows it, or has exited.                                              *)
(***************************************************************************)
C34_AtMostOneAfterCancel ==
    \A l \in Loops :
        /\ started[l] <= 1
        /\ started[l] > 0 => ctxDone
        /\ (ctxDone /\ loops[l].pc = "ready") => started[l] = 0
        /\ started[l] = 1 => loops[l].pc \in {"running", "select", "exited"}

\* after a signal every loop has exited without error and main has
\* returned; one loop began an invocation after the cancel, another none
C34_Witness ==
    /\ wg.pc = "returned"
    /\ \E l \in Loops, m \in Loops :
          /\ started[l] = 1 /\ loops[l].err = NilError
          /\ started[m] = 0

====
